---------------------------- MODULE Spec2Model ----------------------------
(***************************************************************************)
(* Update-detection engine of docker-image-reporter: the version           *)
(* comparator (pkg/utils/version.go), the scan orchestrator                *)
(* (internal/scanner/scanner.go) and the registry cache (package cache).   *)
(*                                                                         *)
(* Go strings are modelled as sequences of one-character strings, so that  *)
(* trimming, matching and concatenation are computed, not assumed.         *)
(***************************************************************************)
EXTENDS Integers, Sequences, FiniteSets, TLC

(***************************************************************************)
(* Strings                                                                 *)
(***************************************************************************)

\* The characters of the model, in ASCII order (Go compares strings bytewise).
AsciiChars ==
  << "#", "+", "-", ".", "/",
     "0", "1", "2", "3", "4", "5", "6", "7", "8", "9", ":",
     "A", "B", "C", "D", "E", "F", "G", "H", "I", "J", "K", "L", "M",
     "N", "O", "P", "Q", "R", "S", "T", "U", "V", "W", "X", "Y", "Z", "_",
     "a", "b", "c", "d", "e", "f", "g", "h", "i", "j", "k", "l", "m",
     "n", "o", "p", "q", "r", "s", "t", "u", "v", "w", "x", "y", "z" >>

Ord(c) == CHOOSE i \in 1..Len(AsciiChars) : AsciiChars[i] = c

Digits == {"0", "1", "2", "3", "4", "5", "6", "7", "8", "9"}

UpperChars == {AsciiChars[i] : i \in 17..42}

LowerChars == {AsciiChars[i] : i \in 44..69}

IsDigit(c) == c \in Digits

IsLetter(c) == c \in UpperChars \cup LowerChars

DigitVal(c) == Ord(c) - Ord("0")

\* strings.ToLower on one byte: 'A'..'Z' are 27 positions before 'a'..'z' here
ToLowerChar(c) == IF c \in UpperChars THEN AsciiChars[Ord(c) + 27] ELSE c

ToLower(s) == [i \in 1..Len(s) |-> ToLowerChar(s[i])]

RECURSIVE StrLess(_, _)
\* Go's s < t on strings
StrLess(s, t) ==
  IF t = << >> THEN FALSE
  ELSE IF s = << >> THEN TRUE
  ELSE IF s[1] = t[1] THEN StrLess(Tail(s), Tail(t))
  ELSE Ord(s[1]) < Ord(t[1])

HasPrefix(s, p) == Len(p) <= Len(s) /\ SubSeq(s, 1, Len(p)) = p

TrimPrefix(s, p) == IF HasPrefix(s, p) THEN SubSeq(s, Len(p) + 1, Len(s)) ELSE s

Contains(s, sub) ==
  \E i \in 0..(Len(s) - Len(sub)) : SubSeq(s, i + 1, i + Len(sub)) = sub

AllDigits(s) == s # << >> /\ \A i \in 1..Len(s) : IsDigit(s[i])

RECURSIVE ParseUint(_)
ParseUint(s) ==
  IF s = << >> THEN 0
  ELSE 10 * ParseUint(SubSeq(s, 1, Len(s) - 1)) + DigitVal(s[Len(s)])

\* index of the first occurrence of character c in s, 0 when absent
IndexChar(s, c) ==
  IF \E i \in 1..Len(s) : s[i] = c
  THEN CHOOSE i \in 1..Len(s) : s[i] = c /\ \A j \in 1..(i - 1) : s[j] # c
  ELSE 0

RECURSIVE Split(_, _)
\* strings.Split(s, c) for a one-character separator
Split(s, c) ==
  LET i == IndexChar(s, c)
  IN IF i = 0 THEN << s >>
     ELSE << SubSeq(s, 1, i - 1) >> \o Split(SubSeq(s, i + 1, Len(s)), c)

\* number of leading digits of s
DigitRun(s) ==
  IF \E i \in 1..Len(s) : ~IsDigit(s[i])
  THEN (CHOOSE i \in 1..Len(s) : ~IsDigit(s[i]) /\ \A j \in 1..(i - 1) : IsDigit(s[j])) - 1
  ELSE Len(s)


(***************************************************************************)
(* github.com/Masterminds/semver/v3 as used by version.go                  *)
(***************************************************************************)

NoVersion == [ok |-> FALSE, major |-> 0, minor |-> 0, patch |-> 0, pre |-> << >>, meta |-> << >>]

\* characters of a pre-release or metadata identifier: [0-9A-Za-z-]
IsIdentChar(c) == IsDigit(c) \/ IsLetter(c) \/ c = "-"

\* [0-9A-Za-z\-]+(\.[0-9A-Za-z\-]+)*
IsIdentList(s) ==
  LET parts == Split(s, ".")
  IN \A k \in 1..Len(parts) :
       parts[k] # << >> /\ \A i \in 1..Len(parts[k]) : IsIdentChar(parts[k][i])

\* validatePrerelease: a numeric identifier has no leading zero
ValidPrerelease(p) ==
  LET parts == Split(p, ".")
  IN \A k \in 1..Len(parts) :
       ~(AllDigits(parts[k]) /\ Len(parts[k]) > 1 /\ parts[k][1] = "0")

\* the part of s before the first c (all of s when c does not occur)
Before(s, c) == IF IndexChar(s, c) = 0 THEN s ELSE SubSeq(s, 1, IndexChar(s, c) - 1)

\* the part of s after the first c (empty when c does not occur)
After(s, c) == IF IndexChar(s, c) = 0 THEN << >> ELSE SubSeq(s, IndexChar(s, c) + 1, Len(s))

HasChar(s, c) == IndexChar(s, c) # 0

\* the version built from the groups of the match; missing minor and patch are 0
VersionOf(core, hasPre, prerelease, hasMeta, metadata) ==
  IF /\ Len(core) \in 1..3
     /\ \A k \in 1..Len(core) : AllDigits(core[k])
     /\ hasPre => (IsIdentList(prerelease) /\ ValidPrerelease(prerelease))
     /\ hasMeta => IsIdentList(metadata)
  THEN [ok |-> TRUE,
        major |-> ParseUint(core[1]),
        minor |-> IF Len(core) >= 2 THEN ParseUint(core[2]) ELSE 0,
        patch |-> IF Len(core) >= 3 THEN ParseUint(core[3]) ELSE 0,
        pre |-> prerelease,
        meta |-> metadata]
  ELSE NoVersion

\* ^v?(\d+)(\.\d+)?(\.\d+)?(-pre)?(\+meta)?$ on s0, the text after the optional v:
\* "+" can only start the metadata, and the first "-" before it the pre-release
MatchVersion(s0) ==
  VersionOf(Split(Before(Before(s0, "+"), "-"), "."),
            HasChar(Before(s0, "+"), "-"), After(Before(s0, "+"), "-"),
            HasChar(s0, "+"), After(s0, "+"))

\* semver.NewVersion
NewVersion(v) == MatchVersion(TrimPrefix(v, << "v" >>))

\* comparePrePart: numeric identifiers compare as numbers and sort before others
ComparePrePart(s, o) ==
  IF s = o THEN 0
  ELSE IF s = << >> THEN -1
  ELSE IF o = << >> THEN 1
  ELSE IF AllDigits(s) /\ AllDigits(o)
       THEN (IF ParseUint(s) > ParseUint(o) THEN 1 ELSE -1)
  ELSE IF AllDigits(o) THEN 1
  ELSE IF AllDigits(s) THEN -1
  ELSE IF StrLess(o, s) THEN 1 ELSE -1

HeadOrEmpty(parts) == IF parts = << >> THEN << >> ELSE parts[1]

TailOrEmpty(parts) == IF parts = << >> THEN << >> ELSE Tail(parts)

RECURSIVE ComparePreParts(_, _)
\* comparePrerelease: part by part, a missing part sorts first
ComparePreParts(sp, op) ==
  IF sp = << >> /\ op = << >> THEN 0
  ELSE IF ComparePrePart(HeadOrEmpty(sp), HeadOrEmpty(op)) # 0
       THEN ComparePrePart(HeadOrEmpty(sp), HeadOrEmpty(op))
  ELSE ComparePreParts(TailOrEmpty(sp), TailOrEmpty(op))

\* (*Version).Compare: major, minor, patch, then the pre-release
SemverCompare(v, o) ==
  IF v.major # o.major THEN (IF v.major > o.major THEN 1 ELSE -1)
  ELSE IF v.minor # o.minor THEN (IF v.minor > o.minor THEN 1 ELSE -1)
  ELSE IF v.patch # o.patch THEN (IF v.patch > o.patch THEN 1 ELSE -1)
  ELSE IF v.pre = << >> /\ o.pre = << >> THEN 0
  ELSE IF v.pre = << >> THEN 1
  ELSE IF o.pre = << >> THEN -1
  ELSE ComparePreParts(Split(v.pre, "."), Split(o.pre, "."))

(***************************************************************************)
(* pkg/utils/version.go                                                    *)
(***************************************************************************)

preReleasePatterns ==
  << << "a", "l", "p", "h", "a" >>,
     << "b", "e", "t", "a" >>,
     << "r", "c" >>,
     << "d", "e", "v" >>,
     << "d", "e", "v", "e", "l" >>,
     << "d", "e", "v", "e", "l", "o", "p", "m", "e", "n", "t" >>,
     << "n", "i", "g", "h", "t", "l", "y" >>,
     << "s", "n", "a", "p", "s", "h", "o", "t" >>,
     << "t", "e", "s", "t" >>,
     << "e", "x", "p", "e", "r", "i", "m", "e", "n", "t", "a", "l" >>,
     << "c", "a", "n", "a", "r", "y" >>,
     << "p", "r", "e" >>,
     << "p", "r", "e", "v", "i", "e", "w" >>,
     << "u", "n", "s", "t", "a", "b", "l", "e" >> >>

dashPreReleasePatterns ==
  << << "-", "a", "l", "p", "h", "a" >>,
     << "-", "b", "e", "t", "a" >>,
     << "-", "r", "c" >>,
     << "-", "d", "e", "v" >>,
     << "-", "d", "e", "v", "e", "l" >>,
     << "-", "d", "e", "v", "e", "l", "o", "p", "m", "e", "n", "t" >>,
     << "-", "p", "r", "e" >>,
     << "-", "p", "r", "e", "v", "i", "e", "w" >>,
     << "-", "u", "n", "s", "t", "a", "b", "l", "e" >> >>

suffixes ==
  << << "-", "a", "l", "p", "i", "n", "e" >>,
     << "-", "s", "l", "i", "m" >>,
     << "-", "s", "c", "r", "a", "t", "c", "h" >>,
     << "-", "u", "b", "u", "n", "t", "u" >>,
     << "-", "d", "e", "b", "i", "a", "n" >>,
     << "-", "b", "u", "l", "l", "s", "e", "y", "e" >>,
     << "-", "b", "u", "s", "t", "e", "r" >>,
     << "-", "f", "o", "c", "a", "l" >>,
     << "-", "j", "a", "m", "m", "y" >>,
     << "-", "m", "u", "s", "l" >>,
     << "-", "g", "l", "i", "b", "c" >>,
     << "-", "b", "o", "o", "k", "w", "o", "r", "m" >>,
     << "-", "n", "o", "b", "l", "e" >> >>

\* \.(\d+) at the start of r, followed by \.\d
SemverRegexTail(r, n2) ==
  n2 >= 1 /\ Len(r) >= n2 + 2 /\ r[n2 + 1] = "." /\ IsDigit(r[n2 + 2])

SemverRegexHead(s0, n1) ==
  /\ n1 >= 1 /\ Len(s0) > n1 /\ s0[n1 + 1] = "."
  /\ SemverRegexTail(SubSeq(s0, n1 + 2, Len(s0)), DigitRun(SubSeq(s0, n1 + 2, Len(s0))))

\* semverRegex ^v?(\d+)\.(\d+)\.(\d+) : a prefix match
semverRegex(s) ==
  SemverRegexHead(TrimPrefix(s, << "v" >>), DigitRun(TrimPrefix(s, << "v" >>)))

\* twoPartSemverRegex ^v?\d+\.\d+$
twoPartSemverRegex(s) ==
  LET parts == Split(TrimPrefix(s, << "v" >>), ".")
  IN Len(parts) = 2 /\ AllDigits(parts[1]) /\ AllDigits(parts[2])

\* onePartSemverRegex ^v?\d+$
onePartSemverRegex(s) == AllDigits(TrimPrefix(s, << "v" >>))

\* (?i)<suffix>[0-9\.\-]*$ matches s starting at position i
SuffixMatchesAt(s, suffix, i) ==
  /\ i + Len(suffix) - 1 <= Len(s)
  /\ ToLower(SubSeq(s, i, i + Len(suffix) - 1)) = suffix
  /\ \A j \in (i + Len(suffix))..Len(s) : IsDigit(s[j]) \/ s[j] \in {".", "-"}

SuffixMatches(s, suffix) == \E i \in 1..Len(s) : SuffixMatchesAt(s, suffix, i)

RECURSIVE BestSuffix(_, _, _)
\* the loop of ExtractVersionSuffix: the longest base suffix that matches
BestSuffix(lowerVersion, k, bestMatch) ==
  IF k > Len(suffixes) THEN bestMatch
  ELSE BestSuffix(lowerVersion, k + 1,
                  IF SuffixMatches(lowerVersion, suffixes[k]) /\ Len(suffixes[k]) > Len(bestMatch)
                  THEN suffixes[k] ELSE bestMatch)

ExtractVersionSuffix(version) == BestSuffix(ToLower(version), 1, << >>)

\* re.ReplaceAllString(s, ""): the leftmost match runs to the end of s
RemoveSuffixMatch(s, suffix) ==
  IF SuffixMatches(s, suffix)
  THEN LET i == CHOOSE i \in 1..Len(s) :
                  SuffixMatchesAt(s, suffix, i) /\ \A j \in 1..(i - 1) : ~SuffixMatchesAt(s, suffix, j)
       IN SubSeq(s, 1, i - 1)
  ELSE s

StripSuffix(normalized, suffix) ==
  IF suffix # << >> THEN RemoveSuffixMatch(normalized, suffix) ELSE normalized

NormalizeVersion(version) ==
  StripSuffix(TrimPrefix(version, << "v" >>),
              ExtractVersionSuffix(TrimPrefix(version, << "v" >>)))

\* parseFlexibleSemver once the tag is normalized and NewVersion has been tried
ParseNormalized(normalized, sv) ==
  IF sv.ok THEN sv
  ELSE IF twoPartSemverRegex(normalized) THEN NewVersion(normalized \o << ".", "0" >>)
  ELSE IF onePartSemverRegex(normalized) THEN NewVersion(normalized \o << ".", "0", ".", "0" >>)
  ELSE NoVersion

ParseNormalizedTag(normalized) == ParseNormalized(normalized, NewVersion(normalized))

parseFlexibleSemver(version) == ParseNormalizedTag(NormalizeVersion(version))

\* C16 mutant: only a lower candidate is no update
CompareParsedStrict(currentSemver, newSemver) ==
  IF ~currentSemver.ok \/ ~newSemver.ok THEN "unknown"
  ELSE IF SemverCompare(newSemver, currentSemver) < 0 THEN "none"
  ELSE IF newSemver.major > currentSemver.major THEN "major"
  ELSE IF newSemver.minor > currentSemver.minor THEN "minor"
  ELSE IF newSemver.patch > currentSemver.patch THEN "patch"
  ELSE "patch"

\* C17 mutant: the minor component is looked at before the major one
CompareParsedMinorFirst(currentSemver, newSemver) ==
  IF ~currentSemver.ok \/ ~newSemver.ok THEN "unknown"
  ELSE IF SemverCompare(newSemver, currentSemver) <= 0 THEN "none"
  ELSE IF newSemver.minor > currentSemver.minor THEN "minor"
  ELSE IF newSemver.major > currentSemver.major THEN "major"
  ELSE IF newSemver.patch > currentSemver.patch THEN "patch"
  ELSE "patch"

\* compareSemantic on the two parse results
CompareParsed(currentSemver, newSemver) ==
  IF ~currentSemver.ok \/ ~newSemver.ok THEN "unknown"
  ELSE IF SemverCompare(newSemver, currentSemver) <= 0 THEN "none"
  ELSE IF newSemver.major > currentSemver.major THEN "major"
  ELSE IF newSemver.minor > currentSemver.minor THEN "minor"
  ELSE IF newSemver.patch > currentSemver.patch THEN "patch"
  ELSE "patch"

compareSemantic(currentVersion, newVersion) ==
  CompareParsed(parseFlexibleSemver(currentVersion), parseFlexibleSemver(newVersion))

\* C18 mutant: the strings are compared the other way round
compareStringReversed(currentVersion, newVersion) ==
  IF currentVersion = newVersion THEN "none"
  ELSE IF StrLess(newVersion, currentVersion) THEN "unknown"
  ELSE "none"

compareString(currentVersion, newVersion) ==
  IF currentVersion = newVersion THEN "none"
  ELSE IF StrLess(currentVersion, newVersion) THEN "unknown"
  ELSE "none"

FallBack(updateType, currentVersion, newVersion) ==
  IF updateType # "unknown" THEN updateType
  ELSE compareString(currentVersion, newVersion)

CompareVersions(currentVersion, newVersion) ==
  FallBack(compareSemantic(currentVersion, newVersion), currentVersion, newVersion)

\* the regexp -[a-zA-Z]\. anywhere in s
SingleLetterMarker(s) ==
  \E i \in 1..(Len(s) - 2) : s[i] = "-" /\ IsLetter(s[i + 1]) /\ s[i + 2] = "."

IsPreReleaseLower(lowerVersion) ==
  IF lowerVersion = << "l", "a", "t", "e", "s", "t" >>
     \/ lowerVersion = << "s", "t", "a", "b", "l", "e" >> THEN FALSE
  ELSE IF \E k \in 1..Len(dashPreReleasePatterns) :
             Contains(lowerVersion, dashPreReleasePatterns[k]) THEN TRUE
  ELSE IF SingleLetterMarker(lowerVersion) THEN TRUE
  ELSE \E k \in 1..Len(preReleasePatterns) :
         /\ Contains(lowerVersion, preReleasePatterns[k])
         /\ ~(preReleasePatterns[k] = << "t", "e", "s", "t" >>
              /\ lowerVersion = << "l", "a", "t", "e", "s", "t" >>)
         /\ Len(preReleasePatterns[k]) # 1

IsPreRelease(version) == IsPreReleaseLower(ToLower(version))

IsSemanticNormalized(n) ==
  semverRegex(n) \/ twoPartSemverRegex(n) \/ onePartSemverRegex(n)

IsSemanticVersion(version) == IsSemanticNormalized(NormalizeVersion(version))

NotPreRelease(tag) == ~IsPreRelease(tag)

FilterPreReleases(tags) == SelectSeq(tags, NotPreRelease)

Swap(s, i, j) == [s EXCEPT ![i] = s[j], ![j] = s[i]]

RECURSIVE SemanticSortLoop(_, _, _)
\* for i { for j > i { if pairs[i] < pairs[j] { swap } } }
SemanticSortLoop(pairs, i, j) ==
  IF i > Len(pairs) - 1 THEN pairs
  ELSE IF j > Len(pairs) THEN SemanticSortLoop(pairs, i + 1, i + 2)
  ELSE SemanticSortLoop(
         IF SemverCompare(parseFlexibleSemver(pairs[i]), parseFlexibleSemver(pairs[j])) < 0
         THEN Swap(pairs, i, j) ELSE pairs,
         i, j + 1)

ParsesFlexibly(version) == parseFlexibleSemver(version).ok

sortSemanticVersions(versions) ==
  IF Len(versions) <= 1 THEN versions
  ELSE SemanticSortLoop(SelectSeq(versions, ParsesFlexibly), 1, 2)

RECURSIVE StringSortLoop(_, _, _)
StringSortLoop(sorted, i, j) ==
  IF i > Len(sorted) - 1 THEN sorted
  ELSE IF j > Len(sorted) THEN StringSortLoop(sorted, i + 1, i + 2)
  ELSE StringSortLoop(
         IF StrLess(sorted[i], sorted[j]) THEN Swap(sorted, i, j) ELSE sorted,
         i, j + 1)

sortStringVersions(versions) ==
  IF Len(versions) <= 1 THEN versions
  ELSE StringSortLoop(versions, 1, 2)

NotSemanticVersion(version) == ~IsSemanticVersion(version)

SortVersions(versions) ==
  IF Len(versions) <= 1 THEN versions
  ELSE sortSemanticVersions(SelectSeq(versions, IsSemanticVersion))
         \o sortStringVersions(SelectSeq(versions, NotSemanticVersion))

\* C30 mutant: a group is passed over only if its version is below currSv
BestGroupsNotBelow(currSv, tags) ==
  LET groups == {sv \in {parseFlexibleSemver(tags[i]) : i \in 1..Len(tags)} : sv.ok}
      higher == {g \in groups : SemverCompare(g, currSv) >= 0}
  IN {g \in higher : \A h \in higher : SemverCompare(h, g) <= 0}

\* The loop over the groups map: a group is passed over unless its version is above
\* currSv, and replaces best only if best.sem.LessThan(g.sem). Go ranges over a map
\* in an unspecified order, so of several highest groups that Compare equal (they
\* differ in build metadata only) any one can end up as best.
BestGroups(currSv, tags) ==
  LET groups == {sv \in {parseFlexibleSemver(tags[i]) : i \in 1..Len(tags)} : sv.ok}
      higher == {g \in groups : SemverCompare(g, currSv) > 0}
  IN {g \in higher : \A h \in higher : SemverCompare(h, g) <= 0}

\* C20 mutant: the first tag of the group, whatever its suffix
PreferredTagFirst(currentVersion, tags) == tags[1]

\* the tag returned from best.tags: the first one matching the current suffix, else
\* the first one without a suffix, else the first one
PreferredTag(currentVersion, tags) ==
  LET suffix == ExtractVersionSuffix(currentVersion)
      matching == SelectSeq(tags, LAMBDA t : SuffixMatches(ToLower(t), suffix))
      generic == SelectSeq(tags, LAMBDA t : ExtractVersionSuffix(t) = << >>)
  IN IF suffix # << >> /\ matching # << >> THEN matching[1]
     ELSE IF generic # << >> THEN generic[1]
     ELSE tags[1]

\* FindBestUpdateTag: the tags it can return (one for each order of the map range)
FindBestUpdateTag(currentVersion, tags) ==
  IF Len(tags) = 0 THEN {<< >>}
  ELSE IF ~parseFlexibleSemver(currentVersion).ok
  THEN {HeadOrEmpty(SortVersions(tags))}
  ELSE IF BestGroups(parseFlexibleSemver(currentVersion), tags) = {} THEN {<< >>}
  ELSE {PreferredTag(currentVersion, SelectSeq(tags, LAMBDA t : parseFlexibleSemver(t) = best)) :
          best \in BestGroups(parseFlexibleSemver(currentVersion), tags)}

\* C21 mutant: unknown is ranked with minor
isUpdateTypeAcceptableUnknownAsMinor(updateType, minUpdateType) ==
  LET hierarchy == [none |-> 0, patch |-> 1, minor |-> 2, major |-> 3, unknown |-> 2]
  IN IF updateType \notin DOMAIN hierarchy \/ minUpdateType \notin DOMAIN hierarchy THEN TRUE
     ELSE hierarchy[updateType] >= hierarchy[minUpdateType]

\* isUpdateTypeAcceptable: the hierarchy map; a type that is not in it is allowed
isUpdateTypeAcceptable(updateType, minUpdateType) ==
  LET hierarchy == [none |-> 0, patch |-> 1, minor |-> 2, major |-> 3, unknown |-> 1]
  IN IF updateType \notin DOMAIN hierarchy \/ minUpdateType \notin DOMAIN hierarchy THEN TRUE
     ELSE hierarchy[updateType] >= hierarchy[minUpdateType]

\* ShouldIncludeUpdate(currentVersion, candidateVersion, filter)
ShouldIncludeUpdate(currentVersion, candidateVersion, filter) ==
  LET matchesExcludePatterns(version, patterns) ==
        \E k \in 1..Len(patterns) : Contains(ToLower(version), ToLower(patterns[k]))
      updateType == CompareVersions(currentVersion, candidateVersion)
  IN IF ~filter.IncludePreReleases /\ IsPreRelease(candidateVersion) THEN FALSE
     ELSE IF matchesExcludePatterns(candidateVersion, filter.ExcludePatterns) THEN FALSE
     ELSE IF updateType = "none" THEN FALSE
     ELSE isUpdateTypeAcceptable(updateType, filter.MinUpdateType)

(***************************************************************************)
(* internal/scanner/scanner.go: Service.checkForUpdates                    *)
(***************************************************************************)

\* most images of one scan
NumTasks == 2

\* the values of Config.MaxConcurrency tried
ConcurrencyValues == {-1, 0, 1, 2}

\* Name() of the clients createScanService registers, in order
registries == << << "d", "o", "c", "k", "e", "r", ".", "i", "o" >>, << "g", "h", "c", "r", ".", "i", "o" >> >>

\* What a scan can meet: an image and what the registry client that serves it does
\* with GetLatestTags (delay: "none" answers at once, "finite" answers unless its
\* context ends first, "hang" answers only when its context ends).
ScanInputs ==
  << [Registry |-> << "d", "o", "c", "k", "e", "r", ".", "i", "o" >>, Tag |-> << "1", ".", "2", "0" >>,
      delay |-> "none", err |-> FALSE, tags |-> << << "1", ".", "2", "2" >>, << "1", ".", "2", "1" >>, << "1", ".", "2", "0" >> >>],
     [Registry |-> << >>, Tag |-> << "1", ".", "2", "2" >>,
      delay |-> "finite", err |-> FALSE, tags |-> << << "1", ".", "2", "2" >>, << "1", ".", "2", "1" >>, << "1", ".", "2", "2", "-", "r", "c", "1" >> >>],
     [Registry |-> << "q", "u", "a", "y", ".", "i", "o" >>, Tag |-> << "l", "a", "t", "e", "s", "t" >>,
      delay |-> "none", err |-> FALSE, tags |-> << << "l", "a", "t", "e", "s", "t" >> >>],
     [Registry |-> << "G", "H", "C", "R", ".", "i", "o" >>, Tag |-> << "v", "2", ".", "0", ".", "1" >>,
      delay |-> "none", err |-> TRUE, tags |-> << >>],
     [Registry |-> << "d", "o", "c", "k", "e", "r", ".", "i", "o" >>, Tag |-> << "l", "a", "t", "e", "s", "t" >>,
      delay |-> "hang", err |-> FALSE, tags |-> << << "l", "a", "t", "e", "s", "t" >> >>],
     [Registry |-> << "d", "o", "c", "k", "e", "r", ".", "i", "o" >>, Tag |-> << "3", ".", "1" >>,
      delay |-> "none", err |-> FALSE, tags |-> << >>],
     [Registry |-> << "g", "h", "c", "r", ".", "i", "o" >>, Tag |-> << "1", ".", "2", ".", "3", ".", "4" >>,
      delay |-> "none", err |-> FALSE, tags |-> << << "1", ".", "2", ".", "3", ".", "4" >>, << "1", ".", "2", ".", "3", ".", "5" >> >>] >>

VARIABLES
  images,          \* the images argument: task number -> index into ScanInputs
  MaxConcurrency,  \* config.MaxConcurrency
  cpc,             \* where checkForUpdates itself is
  panicked,        \* "none", or the run-time panic that ended the process
  tpc,             \* where each task's goroutine is
  semaphore,       \* number of slots taken in the semaphore channel
  wg,              \* the WaitGroup counter
  closer,          \* where the goroutine that closes the channels is
  ctxDone,         \* the parent context is cancelled
  updatesChan, upToDateChan, errorsChan,   \* [buf, closed, isNil]
  updates, upToDate, errors,               \* the collected results
  publishedAtCancel   \* history: the tasks that had published when ctx was cancelled

scanVars ==
  << images, MaxConcurrency, cpc, panicked, tpc, semaphore, wg, closer, ctxDone,
     updatesChan, upToDateChan, errorsChan, updates, upToDate, errors,
     publishedAtCancel >>

\* the state of RegistryCache, CachedRegistryClient and their callers
VARIABLES
  now,              \* the clock
  defaultTTL,       \* Config.DefaultTTL
  cleanupInterval,  \* Config.CleanupInterval
  store,            \* c.cache: key -> entry
  stats,            \* c.stats: Hits, Misses, Evicted, Size
  th,               \* each calling goroutine: its call, its position and its locals
  sweeper,          \* the cleanupLoop goroutine: position and keysToDelete
  delegateCalls,    \* history: calls of the wrapped client's GetLatestTags, per image
  calls,            \* history: number of calls started
  pre               \* history: now, store, stats and delegateCalls when the call started

cacheVars ==
  << now, defaultTTL, cleanupInterval, store, stats, th, sweeper, delegateCalls, calls,
     pre >>

\* a caller of the functions of pkg/utils and of the scanner's helpers
VARIABLES
  libCall,          \* the function called and its arguments
  libResult         \* what it returned, once it has

libVars == << libCall, libResult >>

Tasks == DOMAIN images

Image(t) == ScanInputs[images[t]]

NewChan == [buf |-> << >>, closed |-> FALSE, isNil |-> FALSE]

\* C11 mutant: the names are compared as written
canHandleRegistryCaseSensitive(client, registry) ==
  IF client \in { << "d", "o", "c", "k", "e", "r", ".", "i", "o" >>, << "d", "o", "c", "k", "e", "r", "h", "u", "b" >> }
  THEN registry = << "d", "o", "c", "k", "e", "r", ".", "i", "o" >> \/ registry = << >>
  ELSE IF client \in { << "g", "h", "c", "r", ".", "i", "o" >>, << "g", "h", "c", "r" >> }
  THEN registry = << "g", "h", "c", "r", ".", "i", "o" >>
  ELSE client = registry

\* canHandleRegistry: the switch on the lower-cased client name
canHandleRegistry(client, registry) ==
  LET clientName == ToLower(client)
      registryName == ToLower(registry)
  IN IF clientName \in { << "d", "o", "c", "k", "e", "r", ".", "i", "o" >>, << "d", "o", "c", "k", "e", "r", "h", "u", "b" >> }
     THEN registryName = << "d", "o", "c", "k", "e", "r", ".", "i", "o" >> \/ registryName = << >>
     ELSE IF clientName \in { << "g", "h", "c", "r", ".", "i", "o" >>, << "g", "h", "c", "r" >> }
     THEN registryName = << "g", "h", "c", "r", ".", "i", "o" >>
     ELSE clientName = registryName

\* the loop over the registry clients: the first one that can handle the registry,
\* 0 for nil
FirstClient(clients, registry) ==
  IF \E k \in 1..Len(clients) : canHandleRegistry(clients[k], registry)
  THEN CHOOSE k \in 1..Len(clients) :
         /\ canHandleRegistry(clients[k], registry)
         /\ \A j \in 1..(k - 1) : ~canHandleRegistry(clients[j], registry)
  ELSE 0

\* the loop over s.registries
SelectClient(registry) == FirstClient(registries, registry)

RECURSIVE InputClients(_)
\* SelectClient of every input's registry, computed once
InputClients(n) ==
  IF n = 0 THEN << >> ELSE Append(InputClients(n - 1), SelectClient(ScanInputs[n].Registry))

InputClient == InputClients(Len(ScanInputs))

\* the client checkImageForUpdates finds for task t: SelectClient(Image(t).Registry)
ClientFor(t) == InputClient[images[t]]

\* C4 mutant: the empty tag list is not noticed
NoTagsFoundNever(tags) == FALSE

NoTagsFound(tags) == Len(tags) = 0

\* the outcome for a current tag and the latest tag found
OutcomeOf(currentTag, latestTag, updateType) ==
  IF updateType = "none"
  THEN [chan |-> "upToDate"]
  ELSE [chan |-> "updates", current |-> currentTag, latest |-> latestTag, type |-> updateType]

\* latestTag := sortedTags[0] panics (index out of range) on an empty slice
CompareWithLatest(currentTag, sortedTags) ==
  IF Len(sortedTags) = 0 THEN [chan |-> "panic"]
  ELSE OutcomeOf(currentTag, sortedTags[1], CompareVersions(currentTag, sortedTags[1]))

StableOrAll(tags, stableTags) == IF Len(stableTags) = 0 THEN tags ELSE stableTags

\* checkImageForUpdates after GetLatestTags has returned (err, tags) for an image
\* with tag currentTag: the channel it sends on and what it sends
Classify(currentTag, err, tags) ==
  IF err # "nil" THEN [chan |-> "errors", msg |-> "getting tags", cause |-> err]
  ELSE IF NoTagsFound(tags) THEN [chan |-> "errors", msg |-> "no tags found", cause |-> "nil"]
  ELSE CompareWithLatest(currentTag, SortVersions(StableOrAll(tags, FilterPreReleases(tags))))

\* what the client does with input i when nothing ends the call
Answer(i) ==
  IF ScanInputs[i].err THEN [err |-> "registry unavailable", tags |-> << >>]
  ELSE [err |-> "nil", tags |-> ScanInputs[i].tags]

RECURSIVE AnswerOutcomes(_)
\* Classify of every input's answer, computed once: << Classify(input 1), ... >>
AnswerOutcomes(n) ==
  IF n = 0 THEN << >>
  ELSE Append(AnswerOutcomes(n - 1), Classify(ScanInputs[n].Tag, Answer(n).err, Answer(n).tags))

AnswerOutcome == AnswerOutcomes(Len(ScanInputs))

\* Classify(Image(t).Tag, r.err, r.tags), read from AnswerOutcome when r is the answer
OutcomeFor(t, r) ==
  IF r = Answer(images[t]) THEN AnswerOutcome[images[t]]
  ELSE Classify(Image(t).Tag, r.err, r.tags)

\* a send on one of the three result channels, each of capacity len(images)
CanSend(ch) == Len(ch.buf) < Len(images) /\ ~ch.closed

Publish(t, outcome) ==
  LET out == [service |-> t] @@ outcome
  IN
     /\ out.chan = "updates" =>
       CanSend(updatesChan) /\ updatesChan' = [updatesChan EXCEPT !.buf = Append(@, out)]
     /\ out.chan = "upToDate" =>
       CanSend(upToDateChan) /\ upToDateChan' = [upToDateChan EXCEPT !.buf = Append(@, out)]
     /\ out.chan = "errors" =>
       CanSend(errorsChan) /\ errorsChan' = [errorsChan EXCEPT !.buf = Append(@, out)]
     /\ out.chan # "updates" => UNCHANGED updatesChan
     /\ out.chan # "upToDate" => UNCHANGED upToDateChan
     /\ out.chan # "errors" => UNCHANGED errorsChan

Running == cpc # "start" /\ panicked = "none"

\* C1 mutant: the acquire lets one task too many in
SemaphoreHasRoomOffByOne == semaphore <= MaxConcurrency

\* semaphore <- struct{}{} can proceed
SemaphoreHasRoom == semaphore < MaxConcurrency

ScanInit ==
  /\ \E n \in 0..NumTasks :
       images \in {f \in [1..n -> 1..Len(ScanInputs)] : \A i \in 1..(n - 1) : f[i] <= f[i + 1]}
  /\ MaxConcurrency \in ConcurrencyValues
  /\ cpc = "start"
  /\ panicked = "none"
  /\ tpc = [t \in DOMAIN images |-> "queued"]
  /\ semaphore = 0
  /\ wg = 0
  /\ closer = "idle"
  /\ ctxDone = FALSE
  /\ updatesChan = NewChan /\ upToDateChan = NewChan /\ errorsChan = NewChan
  /\ updates = << >> /\ upToDate = << >> /\ errors = << >>
  /\ publishedAtCancel = {}

\* checkForUpdates up to its collecting loop: the early return, the channels, the
\* semaphore (make panics on a negative size) and one goroutine per image.
CheckForUpdatesStart ==
  /\ cpc = "start" /\ panicked = "none"
  /\ IF Len(images) = 0 THEN cpc' = "returned" /\ UNCHANGED << panicked, wg, closer >>
     ELSE IF MaxConcurrency < 0
          THEN panicked' = "makechan" /\ UNCHANGED << cpc, wg, closer >>
          ELSE cpc' = "collecting" /\ wg' = Len(images) /\ closer' = "waiting"
               /\ UNCHANGED panicked
  /\ UNCHANGED << images, MaxConcurrency, tpc, semaphore, ctxDone,
                  updatesChan, upToDateChan, errorsChan, updates, upToDate, errors,
                  publishedAtCancel >>
  /\ UNCHANGED << cacheVars, libVars >>

\* the goroutine of task t acquires a slot and derives its context
Acquire(t) ==
  /\ Running /\ tpc[t] = "queued"
  /\ SemaphoreHasRoom
  /\ semaphore' = semaphore + 1
  /\ tpc' = [tpc EXCEPT ![t] = "dispatched"]
  /\ UNCHANGED << images, MaxConcurrency, cpc, panicked, wg, closer, ctxDone,
                  updatesChan, upToDateChan, errorsChan, updates, upToDate, errors,
                  publishedAtCancel >>
  /\ UNCHANGED << cacheVars, libVars >>

\* checkImageForUpdates picks the registry client; none is an error outcome
SelectRegistry(t) ==
  /\ Running /\ tpc[t] = "dispatched"
  /\ IF ClientFor(t) = 0
     THEN /\ Publish(t, [chan |-> "errors", msg |-> "no registry client", cause |-> "nil"])
          /\ tpc' = [tpc EXCEPT ![t] = "published"]
     ELSE /\ tpc' = [tpc EXCEPT ![t] = "fetching"]
          /\ UNCHANGED << updatesChan, upToDateChan, errorsChan >>
  /\ UNCHANGED << images, MaxConcurrency, cpc, panicked, semaphore, wg, closer, ctxDone, updates, upToDate, errors, publishedAtCancel >>
  /\ UNCHANGED << cacheVars, libVars >>

\* The ways the context of a call (context.WithTimeout(ctx, config.RegistryTimeout))
\* can end it: the parent is cancelled, or the call's own deadline passes.
CtxErrors == (IF ctxDone THEN {"context canceled"} ELSE {}) \cup {"context deadline exceeded"}

\* what GetLatestTags can return: (err, tags)
CallResults(t) ==
  (IF Image(t).delay \in {"none", "finite"} THEN {Answer(images[t])} ELSE {})
    \cup (IF Image(t).delay \in {"finite", "hang"}
          THEN {[err |-> e, tags |-> << >>] : e \in CtxErrors} ELSE {})

\* GetLatestTags returns and the rest of checkImageForUpdates publishes the outcome
FetchAndClassify(t) ==
  /\ Running /\ tpc[t] = "fetching"
  /\ \E r \in CallResults(t) :
       LET out == OutcomeFor(t, r)
       IN IF out.chan = "panic"
          THEN /\ panicked' = "index out of range"
               /\ tpc' = [tpc EXCEPT ![t] = "panicked"]
               /\ UNCHANGED << updatesChan, upToDateChan, errorsChan >>
          ELSE /\ Publish(t, out)
               /\ tpc' = [tpc EXCEPT ![t] = "published"]
               /\ UNCHANGED panicked
  /\ UNCHANGED << images, MaxConcurrency, cpc, semaphore, wg, closer, ctxDone,
                  updates, upToDate, errors, publishedAtCancel >>
  /\ UNCHANGED << cacheVars, libVars >>

\* the deferred calls of the goroutine, in order: cancel(), <-semaphore, wg.Done()
Release(t) ==
  /\ Running /\ tpc[t] = "published"
  /\ semaphore' = semaphore - 1
  /\ wg' = wg - 1
  /\ tpc' = [tpc EXCEPT ![t] = "done"]
  /\ UNCHANGED << images, MaxConcurrency, cpc, panicked, closer, ctxDone,
                  updatesChan, upToDateChan, errorsChan, updates, upToDate, errors,
                  publishedAtCancel >>
  /\ UNCHANGED << cacheVars, libVars >>

\* wg.Wait() returns
WaitGroupZero == wg = 0

\* the closing goroutine: wg.Wait(), then the three close calls in order
Closer ==
  /\ Running
  /\ \/ closer = "waiting" /\ WaitGroupZero /\ closer' = "closeUpdates"
        /\ UNCHANGED << updatesChan, upToDateChan, errorsChan >>
     \/ closer = "closeUpdates" /\ closer' = "closeUpToDate"
        /\ updatesChan' = [updatesChan EXCEPT !.closed = TRUE]
        /\ UNCHANGED << upToDateChan, errorsChan >>
     \/ closer = "closeUpToDate" /\ closer' = "closeErrors"
        /\ upToDateChan' = [upToDateChan EXCEPT !.closed = TRUE]
        /\ UNCHANGED << updatesChan, errorsChan >>
     \/ closer = "closeErrors" /\ closer' = "done"
        /\ errorsChan' = [errorsChan EXCEPT !.closed = TRUE]
        /\ UNCHANGED << updatesChan, upToDateChan >>
  /\ UNCHANGED << images, MaxConcurrency, cpc, panicked, tpc, semaphore, wg, ctxDone, updates, upToDate, errors, publishedAtCancel >>
  /\ UNCHANGED << cacheVars, libVars >>

\* a receive case of the select is ready: the variable is not nil and the channel
\* has a value or is closed
CanRecv(ch) == ~ch.isNil /\ (ch.buf # << >> \/ ch.closed)

\* C2 mutant: a receive from a closed channel reports ok = false although values
\* are still buffered
RecvOkOpenOnly(ch) == ch.buf # << >> /\ ~ch.closed

\* v, ok := <-ch : ok while values remain, also after close
RecvOk(ch) == ch.buf # << >>

\* the channel variable after the case ran: the value taken, or set to nil
AfterRecv(ch) ==
  IF RecvOk(ch) THEN [ch EXCEPT !.buf = Tail(@)] ELSE [ch EXCEPT !.isNil = TRUE]

Collecting == Running /\ cpc = "collecting"

SelectUpdates ==
  /\ Collecting /\ CanRecv(updatesChan)
  /\ updates' = IF RecvOk(updatesChan) THEN Append(updates, Head(updatesChan.buf)) ELSE updates
  /\ updatesChan' = AfterRecv(updatesChan)
  /\ UNCHANGED << images, MaxConcurrency, cpc, panicked, tpc, semaphore, wg, closer, ctxDone, upToDateChan, errorsChan, upToDate, errors,
                  publishedAtCancel >>
  /\ UNCHANGED << cacheVars, libVars >>

SelectUpToDate ==
  /\ Collecting /\ CanRecv(upToDateChan)
  /\ upToDate' = IF RecvOk(upToDateChan) THEN Append(upToDate, Head(upToDateChan.buf))
                 ELSE upToDate
  /\ upToDateChan' = AfterRecv(upToDateChan)
  /\ UNCHANGED << images, MaxConcurrency, cpc, panicked, tpc, semaphore, wg, closer, ctxDone, updatesChan, errorsChan, updates, errors, publishedAtCancel >>
  /\ UNCHANGED << cacheVars, libVars >>

SelectErrors ==
  /\ Collecting /\ CanRecv(errorsChan)
  /\ errors' = IF RecvOk(errorsChan) THEN Append(errors, Head(errorsChan.buf)) ELSE errors
  /\ errorsChan' = AfterRecv(errorsChan)
  /\ UNCHANGED << images, MaxConcurrency, cpc, panicked, tpc, semaphore, wg, closer, ctxDone, updatesChan, upToDateChan, updates, upToDate,
                  publishedAtCancel >>
  /\ UNCHANGED << cacheVars, libVars >>

ScanCancelled == [chan |-> "errors", service |-> 0, msg |-> "scan cancelled", cause |-> "context done"]

\* the loop condition: some channel variable is not nil yet
LoopContinues == ~updatesChan.isNil \/ ~upToDateChan.isNil \/ ~errorsChan.isNil

\* case <-ctx.Done(): return with the marker appended
SelectCtxDone ==
  /\ Collecting /\ LoopContinues /\ ctxDone
  /\ errors' = Append(errors, ScanCancelled)
  /\ cpc' = "returned"
  /\ UNCHANGED << images, MaxConcurrency, panicked, tpc, semaphore, wg, closer, ctxDone, updatesChan, upToDateChan, errorsChan, updates, upToDate,
                  publishedAtCancel >>
  /\ UNCHANGED << cacheVars, libVars >>

\* the loop ends: return updates, upToDate, errors
CollectReturn ==
  /\ Collecting /\ ~LoopContinues
  /\ cpc' = "returned"
  /\ UNCHANGED << images, MaxConcurrency, panicked, tpc, semaphore, wg, closer, ctxDone, updatesChan, upToDateChan, errorsChan, updates, upToDate,
                  errors, publishedAtCancel >>
  /\ UNCHANGED << cacheVars, libVars >>

Terminal(t) == tpc[t] \in {"published", "done"}

\* the caller cancels the parent context (or its deadline passes) during the scan
CancelParent ==
  /\ cpc # "returned" /\ panicked = "none" /\ ~ctxDone
  /\ ctxDone' = TRUE
  /\ publishedAtCancel' = {t \in Tasks : Terminal(t)}
  /\ UNCHANGED << images, MaxConcurrency, cpc, panicked, tpc, semaphore, wg, closer, updatesChan, upToDateChan, errorsChan, updates, upToDate,
                  errors >>
  /\ UNCHANGED << cacheVars, libVars >>

TaskStep(t) == Acquire(t) \/ SelectRegistry(t) \/ FetchAndClassify(t) \/ Release(t)

CollectorStep ==
  SelectUpdates \/ SelectUpToDate \/ SelectErrors \/ SelectCtxDone \/ CollectReturn

ScanNext ==
  \/ CheckForUpdatesStart
  \/ \E t \in Tasks : Acquire(t)
  \/ \E t \in Tasks : SelectRegistry(t)
  \/ \E t \in Tasks : FetchAndClassify(t)
  \/ \E t \in Tasks : Release(t)
  \/ Closer
  \/ CollectorStep
  \/ CancelParent

-----------------------------------------------------------------------------
\* RegistryCache and CachedRegistryClient

\* number of goroutines that call the cache
CacheCallers == 2

\* the clock runs from 0 to MaxTime
MaxTime == 2

\* number of calls made in one behaviour
MaxCalls == 2

\* the values tried for a TTL (Config.DefaultTTL and the ttl argument)
TTLs == {0, 1}

\* the values tried for Config.CleanupInterval: 0 disables the background sweep
CleanupIntervals == {0, 1}

\* the images the callers ask about: docker.io/nginx:1 and ghcr.io/u/app:1
CacheImages ==
  << [Registry |-> << "d", "o", "c", "k", "e", "r", ".", "i", "o" >>,
      Repository |-> << "n", "g", "i", "n", "x" >>, Tag |-> << "1" >>],
     [Registry |-> << "g", "h", "c", "r", ".", "i", "o" >>,
      Repository |-> << "u", "/", "a", "p", "p" >>, Tag |-> << "1" >>] >>

\* the tag lists passed to SetTagsWithTTL
TagLists == { << "1.22", "1.21" >> }

\* what the wrapped client's GetLatestTags returns for each image when it succeeds
DelegateTags == << << "1.23", "1.22" >>, << "2.0" >> >>

Operations == << << "t", "a", "g", "s" >>, << "i", "n", "f", "o" >> >>

Ops == {"GetTags", "SetTagsWithTTL", "GetImageInfo", "SetImageInfo", "Clear",
        "GetLatestTags"}

\* the operation a method builds its key with: 1 is "tags", 2 is "info"
OperationOf(op) == IF op \in {"GetImageInfo", "SetImageInfo"} THEN 2 ELSE 1

\* makeKey: image.Registry + "/" + image.Repository + ":" + image.Tag + "#" + operation
makeKey(image, operation) ==
  image.Registry \o << "/" >> \o image.Repository \o << ":" >> \o image.Tag \o << "#" >>
    \o operation

\* every key the callers can build
Keys == {makeKey(CacheImages[i], Operations[o]) :
           i \in 1..Len(CacheImages), o \in 1..Len(Operations)}

\* no value under a key in the sync.Map
NoEntry == [ok |-> FALSE, Tags |-> << >>, ImageInfo |-> "nil", Timestamp |-> 0, TTL |-> 0]

\* &CacheEntry{...}
CacheEntry(tags, info, timestamp, ttl) ==
  [ok |-> TRUE, Tags |-> tags, ImageInfo |-> info, Timestamp |-> timestamp, TTL |-> ttl]

\* C5 mutant: an entry whose age equals its TTL counts as expired
IsExpiredAtTTL(e, t) == t - e.Timestamp >= e.TTL

\* IsExpired at clock value t: time.Since(e.Timestamp) > e.TTL
IsExpired(e, t) == t - e.Timestamp > e.TTL

\* what a method returns: (tags or info, found) or (tags, err)
NoReturn == [tags |-> << >>, info |-> "nil", found |-> FALSE, err |-> "nil"]

\* a goroutine that is in no call
Idle ==
  [pc |-> "idle", op |-> "none", image |-> 0, tags |-> << >>, info |-> "nil", ttl |-> 0,
   entry |-> NoEntry, readAt |-> 0, delegated |-> FALSE, ret |-> NoReturn]

Callers == 1..CacheCallers

\* the key of the call goroutine c is in
KeyOf(c) == makeKey(CacheImages[th[c].image], Operations[OperationOf(th[c].op)])

NoSnapshot == [taken |-> FALSE]

\* NewRegistryCache(config), and NewCachedRegistryClient around it
CacheInit ==
  /\ now = 0
  /\ defaultTTL \in TTLs
  /\ cleanupInterval \in CleanupIntervals
  /\ store = [k \in Keys |-> NoEntry]
  /\ stats = [Hits |-> 0, Misses |-> 0, Evicted |-> 0, Size |-> 0]
  /\ th = [c \in Callers |-> Idle]
  /\ sweeper = [pc |-> "idle", keysToDelete |-> {}]
  /\ delegateCalls = [i \in 1..Len(CacheImages) |-> 0]
  /\ calls = 0
  /\ pre = [c \in Callers |-> NoSnapshot]

\* the arguments a call of op can be made with; SetImageInfo is
\* SetImageInfoWithTTL with c.defaultTTL, and Clear takes no image
CallArgs(op) ==
  IF op = "SetTagsWithTTL"
  THEN {[image |-> i, tags |-> l, info |-> "nil", ttl |-> d] :
          i \in 1..Len(CacheImages), l \in TagLists, d \in TTLs}
  ELSE IF op = "SetImageInfo"
  THEN {[image |-> i, tags |-> << >>, info |-> "info", ttl |-> defaultTTL] :
          i \in 1..Len(CacheImages)}
  ELSE IF op = "Clear"
  THEN {[image |-> 0, tags |-> << >>, info |-> "nil", ttl |-> 0]}
  ELSE {[image |-> i, tags |-> << >>, info |-> "nil", ttl |-> 0] : i \in 1..Len(CacheImages)}

FirstPc(op) ==
  IF op \in {"GetTags", "GetImageInfo", "GetLatestTags"} THEN "load"
  ELSE IF op = "Clear" THEN "range" ELSE "loadOrStore"

\* goroutine c calls a method of the cache or of the cached client
Call(c) ==
  /\ th[c].pc = "idle" /\ calls < MaxCalls
  /\ \E op \in Ops : \E a \in CallArgs(op) :
       th' = [th EXCEPT ![c] = [Idle EXCEPT !.pc = FirstPc(op), !.op = op, !.image = a.image,
                                            !.tags = a.tags, !.info = a.info,
                                            !.ttl = a.ttl]]
  /\ calls' = calls + 1
  /\ pre' = [pre EXCEPT ![c] = [taken |-> TRUE, now |-> now, store |-> store,
                                stats |-> stats, delegateCalls |-> delegateCalls]]
  /\ UNCHANGED << now, defaultTTL, cleanupInterval, store, stats, sweeper, delegateCalls >>
  /\ UNCHANGED << scanVars, libVars >>

\* GetTags / GetImageInfo: value, ok := c.cache.Load(key)
Load(c) ==
  /\ th[c].pc = "load"
  /\ th' = [th EXCEPT ![c].entry = store[KeyOf(c)],
                      ![c].pc = IF store[KeyOf(c)].ok THEN "isExpired" ELSE "miss"]
  /\ UNCHANGED << now, defaultTTL, cleanupInterval, store, stats, sweeper, delegateCalls,
                  calls, pre >>
  /\ UNCHANGED << scanVars, libVars >>

\* the return of GetTags / GetImageInfo on a hit: the entry's own payload
Hit(e) == [tags |-> e.Tags, info |-> e.ImageInfo, found |-> TRUE, err |-> "nil"]

\* C7 mutant: GetLatestTags asks the client whatever the lookup found
AfterLookupIgnoresHit(op, found) == IF op = "GetLatestTags" THEN "delegate" ELSE "return"

\* where a lookup that is over goes on: GetLatestTags calls the client after a miss
AfterLookup(op, found) ==
  IF op = "GetLatestTags" /\ ~found THEN "delegate" ELSE "return"

\* if !entry.IsExpired() { Hits++; return entry payload, true }
CheckExpired(c) ==
  /\ th[c].pc = "isExpired"
  /\ IF IsExpired(th[c].entry, now)
     THEN /\ th' = [th EXCEPT ![c].readAt = now, ![c].pc = "delete"]
          /\ UNCHANGED stats
     ELSE /\ stats' = [stats EXCEPT !.Hits = @ + 1]
          /\ th' = [th EXCEPT ![c].readAt = now, ![c].ret = Hit(th[c].entry),
                              ![c].pc = AfterLookup(th[c].op, TRUE)]
  /\ UNCHANGED << now, defaultTTL, cleanupInterval, store, sweeper, delegateCalls, calls, pre >>
  /\ UNCHANGED << scanVars, libVars >>

\* c.cache.Delete(key)
Delete(c) ==
  /\ th[c].pc = "delete"
  /\ store' = [store EXCEPT ![KeyOf(c)] = NoEntry]
  /\ th' = [th EXCEPT ![c].pc = "evicted"]
  /\ UNCHANGED << now, defaultTTL, cleanupInterval, stats, sweeper, delegateCalls, calls, pre >>
  /\ UNCHANGED << scanVars, libVars >>

\* atomic.AddInt64(&c.stats.Evicted, 1); atomic.AddInt64(&c.stats.Size, -1)
CountEviction(c) ==
  /\ th[c].pc = "evicted"
  /\ stats' = [stats EXCEPT !.Evicted = @ + 1, !.Size = @ - 1]
  /\ th' = [th EXCEPT ![c].pc = "miss"]
  /\ UNCHANGED << now, defaultTTL, cleanupInterval, store, sweeper, delegateCalls, calls, pre >>
  /\ UNCHANGED << scanVars, libVars >>

\* atomic.AddInt64(&c.stats.Misses, 1); return nil, false
Miss(c) ==
  /\ th[c].pc = "miss"
  /\ stats' = [stats EXCEPT !.Misses = @ + 1]
  /\ th' = [th EXCEPT ![c].ret = NoReturn, ![c].pc = AfterLookup(th[c].op, FALSE)]
  /\ UNCHANGED << now, defaultTTL, cleanupInterval, store, sweeper, delegateCalls, calls, pre >>
  /\ UNCHANGED << scanVars, libVars >>

\* C6 mutant: the failed call goes on to SetTags with the tags it got (none)
OnDelegateErrorCached(t, ttl) ==
  [t EXCEPT !.delegated = TRUE, !.pc = "loadOrStore", !.tags = << >>, !.ttl = ttl,
            !.ret = [NoReturn EXCEPT !.err = "registry unavailable"]]

\* if err != nil { return nil, err }
OnDelegateError(t, ttl) ==
  [t EXCEPT !.delegated = TRUE, !.pc = "return",
            !.ret = [NoReturn EXCEPT !.err = "registry unavailable"]]

\* c.cache.SetTags(image, tags), that is SetTagsWithTTL(image, tags, c.defaultTTL)
OnDelegateOk(t, ttl) ==
  [t EXCEPT !.delegated = TRUE, !.pc = "loadOrStore", !.tags = DelegateTags[t.image],
            !.ttl = ttl]

\* tags, err := c.client.GetLatestTags(ctx, image): the wrapped client fails or answers
Delegate(c) ==
  /\ th[c].pc = "delegate"
  /\ delegateCalls' = [delegateCalls EXCEPT ![th[c].image] = @ + 1]
  /\ \/ th' = [th EXCEPT ![c] = OnDelegateError(th[c], defaultTTL)]
     \/ th' = [th EXCEPT ![c] = OnDelegateOk(th[c], defaultTTL)]
  /\ UNCHANGED << now, defaultTTL, cleanupInterval, store, stats, sweeper, calls, pre >>
  /\ UNCHANGED << scanVars, libVars >>

\* what the call returns once its Set is done: GetLatestTags returns tags with the
\* err it holds (nil), the Set methods return nothing
AfterSet(t) ==
  IF t.op = "GetLatestTags" THEN [t.ret EXCEPT !.tags = t.tags] ELSE t.ret

\* SetTagsWithTTL / SetImageInfoWithTTL: the entry (a copy of tags, time.Now(), ttl)
\* and _, existed := c.cache.LoadOrStore(key, entry)
LoadOrStore(c) ==
  /\ th[c].pc = "loadOrStore"
  /\ th' = [th EXCEPT ![c].entry = CacheEntry(th[c].tags, th[c].info, now, th[c].ttl),
                      ![c].pc = IF store[KeyOf(c)].ok THEN "store" ELSE "sizeInc"]
  /\ store' = IF store[KeyOf(c)].ok THEN store
              ELSE [store EXCEPT ![KeyOf(c)] = CacheEntry(th[c].tags, th[c].info, now, th[c].ttl)]
  /\ UNCHANGED << now, defaultTTL, cleanupInterval, stats, sweeper, delegateCalls, calls, pre >>
  /\ UNCHANGED << scanVars, libVars >>

\* if !existed { atomic.AddInt64(&c.stats.Size, 1) }
SizeInc(c) ==
  /\ th[c].pc = "sizeInc"
  /\ stats' = [stats EXCEPT !.Size = @ + 1]
  /\ th' = [th EXCEPT ![c].ret = AfterSet(th[c]), ![c].pc = "return"]
  /\ UNCHANGED << now, defaultTTL, cleanupInterval, store, sweeper, delegateCalls, calls, pre >>
  /\ UNCHANGED << scanVars, libVars >>

\* else { c.cache.Store(key, entry) }
Store(c) ==
  /\ th[c].pc = "store"
  /\ store' = [store EXCEPT ![KeyOf(c)] = th[c].entry]
  /\ th' = [th EXCEPT ![c].ret = AfterSet(th[c]), ![c].pc = "return"]
  /\ UNCHANGED << now, defaultTTL, cleanupInterval, stats, sweeper, delegateCalls, calls, pre >>
  /\ UNCHANGED << scanVars, libVars >>

\* Clear: c.cache.Range deleting every key
ClearRange(c) ==
  /\ th[c].pc = "range"
  /\ store' = [k \in Keys |-> NoEntry]
  /\ th' = [th EXCEPT ![c].pc = "storeSize"]
  /\ UNCHANGED << now, defaultTTL, cleanupInterval, stats, sweeper, delegateCalls, calls, pre >>
  /\ UNCHANGED << scanVars, libVars >>

\* C14 mutant: Clear goes on without storing 0 in Size
ClearSizeSkipped(c) ==
  /\ th[c].pc = "storeSize"
  /\ th' = [th EXCEPT ![c].pc = "addEvicted"]
  /\ UNCHANGED << now, defaultTTL, cleanupInterval, store, stats, sweeper, delegateCalls, calls, pre >>
  /\ UNCHANGED << scanVars, libVars >>

\* Clear: atomic.StoreInt64(&c.stats.Size, 0)
ClearSize(c) ==
  /\ th[c].pc = "storeSize"
  /\ stats' = [stats EXCEPT !.Size = 0]
  /\ th' = [th EXCEPT ![c].pc = "addEvicted"]
  /\ UNCHANGED << now, defaultTTL, cleanupInterval, store, sweeper, delegateCalls, calls, pre >>
  /\ UNCHANGED << scanVars, libVars >>

\* Clear: atomic.AddInt64(&c.stats.Evicted, atomic.LoadInt64(&c.stats.Size))
ClearEvicted(c) ==
  /\ th[c].pc = "addEvicted"
  /\ stats' = [stats EXCEPT !.Evicted = @ + stats.Size]
  /\ th' = [th EXCEPT ![c].pc = "return"]
  /\ UNCHANGED << now, defaultTTL, cleanupInterval, store, sweeper, delegateCalls, calls, pre >>
  /\ UNCHANGED << scanVars, libVars >>

\* The caller of GetTags writes into the slice it got (tags[0] = "changed"). On a hit
\* that slice is entry.Tags itself ('return entry.Tags, true'): it shares its backing
\* array with the entry under the key, as long as that entry is the one the call loaded.
ModifyReturned(c) ==
  LET Overwritten(tags) == [tags EXCEPT ![1] = "changed"]
  IN /\ th[c].pc = "return" /\ th[c].op = "GetTags"
     /\ th[c].ret.found /\ Len(th[c].ret.tags) > 0
     /\ th' = [th EXCEPT ![c].pc = "modified", ![c].ret.tags = Overwritten(@)]
     /\ store' = IF store[KeyOf(c)] = th[c].entry
                 THEN [store EXCEPT ![KeyOf(c)].Tags = Overwritten(@)]
                 ELSE store
     /\ UNCHANGED << now, defaultTTL, cleanupInterval, stats, sweeper, delegateCalls, calls, pre >>
     /\ UNCHANGED << scanVars, libVars >>

\* the caller is done with what the method returned
Return(c) ==
  /\ th[c].pc \in {"return", "modified"}
  /\ th' = [th EXCEPT ![c] = Idle]
  /\ pre' = [pre EXCEPT ![c] = NoSnapshot]
  /\ UNCHANGED << now, defaultTTL, cleanupInterval, store, stats, sweeper, delegateCalls, calls >>
  /\ UNCHANGED << scanVars, libVars >>

\* cleanupLoop gets a tick; cleanupExpired's Range collects the expired keys
SweepCollect ==
  /\ cleanupInterval > 0 /\ sweeper.pc = "idle"
  /\ \E k \in Keys : store[k].ok /\ IsExpired(store[k], now)
  /\ sweeper' = [pc |-> "deleting",
                 keysToDelete |-> {k \in Keys : store[k].ok /\ IsExpired(store[k], now)}]
  /\ UNCHANGED << now, defaultTTL, cleanupInterval, store, stats, th, delegateCalls, calls, pre >>
  /\ UNCHANGED << scanVars, libVars >>

\* cleanupExpired: for each key collected: Delete, Evicted + 1, Size - 1
SweepDelete ==
  /\ sweeper.pc = "deleting"
  /\ \E k \in sweeper.keysToDelete :
       /\ store' = [store EXCEPT ![k] = NoEntry]
       /\ sweeper' = [pc |-> IF sweeper.keysToDelete = {k} THEN "idle" ELSE "deleting",
                      keysToDelete |-> sweeper.keysToDelete \ {k}]
  /\ stats' = [stats EXCEPT !.Evicted = @ + 1, !.Size = @ - 1]
  /\ UNCHANGED << now, defaultTTL, cleanupInterval, th, delegateCalls, calls, pre >>
  /\ UNCHANGED << scanVars, libVars >>

\* time passes
Tick ==
  /\ now < MaxTime
  /\ now' = now + 1
  /\ UNCHANGED << defaultTTL, cleanupInterval, store, stats, th, sweeper, delegateCalls, calls, pre >>
  /\ UNCHANGED << scanVars, libVars >>

\* no call and no sweep is in progress
Quiet == sweeper.pc = "idle" /\ \A c \in Callers : th[c].pc = "idle"

\* Calls and sweeps that do not overlap: one starts only when nothing is in progress.
CacheSeqNext ==
  \/ \E c \in Callers : Quiet /\ Call(c)
  \/ \E c \in Callers : Load(c)
  \/ \E c \in Callers : CheckExpired(c)
  \/ \E c \in Callers : Delete(c)
  \/ \E c \in Callers : CountEviction(c)
  \/ \E c \in Callers : Miss(c)
  \/ \E c \in Callers : Delegate(c)
  \/ \E c \in Callers : LoadOrStore(c)
  \/ \E c \in Callers : SizeInc(c)
  \/ \E c \in Callers : Store(c)
  \/ \E c \in Callers : ClearRange(c)
  \/ \E c \in Callers : ClearSize(c)
  \/ \E c \in Callers : ClearEvicted(c)
  \/ \E c \in Callers : ModifyReturned(c)
  \/ \E c \in Callers : Return(c)
  \/ Quiet /\ SweepCollect
  \/ SweepDelete
  \/ Tick

\* Calls from several goroutines and the background sweep, interleaved step by step:
\* the sync.Map operations and the atomic counter updates are the steps.
CacheNext ==
  \/ \E c \in Callers : Call(c)
  \/ \E c \in Callers : Load(c)
  \/ \E c \in Callers : CheckExpired(c)
  \/ \E c \in Callers : Delete(c)
  \/ \E c \in Callers : CountEviction(c)
  \/ \E c \in Callers : Miss(c)
  \/ \E c \in Callers : Delegate(c)
  \/ \E c \in Callers : LoadOrStore(c)
  \/ \E c \in Callers : SizeInc(c)
  \/ \E c \in Callers : Store(c)
  \/ \E c \in Callers : ClearRange(c)
  \/ \E c \in Callers : ClearSize(c)
  \/ \E c \in Callers : ClearEvicted(c)
  \/ \E c \in Callers : ModifyReturned(c)
  \/ \E c \in Callers : Return(c)
  \/ SweepCollect
  \/ SweepDelete
  \/ Tick

-----------------------------------------------------------------------------
\* Calls of the functions of pkg/utils and of the scanner's registry selection,
\* one call per behaviour: the arguments are drawn at the start.

MaxClients == 2

\* length of the tag lists passed to SortVersions and FindBestUpdateTag
MaxTags == 3

\* The calls made, each the function and its arguments.
\*   ClientNames: the identities a registry client can report with Name()
\*   RegistryFields: the registry fields of the images
\*   TagPool: the tags NormalizeVersion and CompareVersions are called with
\*   ListPool: the tags in the lists SortVersions is called with
\*   CandidatePool, CurrentVersions: the arguments of FindBestUpdateTag
\*   UpdatePool, UpdateFilters: the candidates and filters of ShouldIncludeUpdate
LibCalls ==
  LET ClientNames == { << "d", "o", "c", "k", "e", "r", ".", "i", "o" >>, << "d", "o", "c", "k", "e", "r", "h", "u", "b" >>, << "D", "o", "c", "k", "e", "r", ".", "i", "o" >>, << "g", "h", "c", "r", ".", "i", "o" >>, << "g", "h", "c", "r" >>, << "q", "u", "a", "y", ".", "i", "o" >> }
      RegistryFields ==
        { << >>, << "d", "o", "c", "k", "e", "r", ".", "i", "o" >>, << "D", "O", "C", "K", "E", "R", ".", "I", "O" >>, << "d", "o", "c", "k", "e", "r", "h", "u", "b" >>, << "g", "h", "c", "r", ".", "i", "o" >>, << "g", "h", "c", "r" >>, << "q", "u", "a", "y", ".", "i", "o" >> }
      TagPool ==
        { << >>, << "1", ".", "2", ".", "3" >>, << "v", "1", ".", "2", ".", "3" >>, << "v", "v", "1", ".", "2", ".", "3" >>, << "1", ".", "2", ".", "4" >>, << "1", ".", "3", ".", "0" >>, << "2", ".", "0", ".", "0" >>, << "2", ".", "5", ".", "1" >>, << "1", ".", "1", "0", ".", "0" >>,
          << "1", ".", "2" >>, << "2" >>, << "1", ".", "2", ".", "3", "-", "r", "c", "1" >>, << "1", ".", "2", ".", "3", "-", "a", "l", "p", "i", "n", "e" >>, << "1", ".", "2", ".", "4", "-", "a", "l", "p", "i", "n", "e", "3", ".", "1", "8" >>, << "1", ".", "2", "-", "a", "l", "p", "i", "n", "e", "-", "s", "l", "i", "m" >>,
          << "1", ".", "2", ".", "3", ".", "4" >>, << "l", "a", "t", "e", "s", "t" >>, << "s", "t", "a", "b", "l", "e" >> }
      ListPool == { << "1", ".", "2", ".", "3" >>, << "1", ".", "3", ".", "0", "-", "a", "l", "p", "i", "n", "e" >>, << "1", ".", "3", ".", "0" >>, << "1", ".", "2", ".", "3", "-", "r", "c", "1" >>, << "1", ".", "2", ".", "3", ".", "4" >>, << "l", "a", "t", "e", "s", "t" >>, << "z", "e", "t", "a" >> }
      CandidatePool ==
        { << "1", ".", "2", ".", "3" >>, << "1", ".", "2", ".", "3", "-", "r", "c", "1" >>, << "1", ".", "3", ".", "0" >>, << "1", ".", "3", ".", "0", "-", "a", "l", "p", "i", "n", "e" >>, << "1", ".", "3", ".", "0", "-", "s", "l", "i", "m" >>, << "l", "a", "t", "e", "s", "t" >> }
      CurrentVersions == { << "1", ".", "2", ".", "3" >>, << "1", ".", "2", ".", "3", "-", "r", "c", "1" >>, << "1", ".", "2", ".", "0", "-", "a", "l", "p", "i", "n", "e" >>, << "l", "a", "t", "e", "s", "t" >> }
      UpdatePool ==
        { << "1", ".", "2", ".", "3" >>, << "1", ".", "2", ".", "4" >>, << "1", ".", "3", ".", "0" >>, << "2", ".", "0", ".", "0" >>, << "1", ".", "2", ".", "4", "-", "a", "l", "p", "h", "a" >>, << "1", ".", "3", ".", "0", "-", "n", "i", "g", "h", "t", "l", "y" >>, << "1", ".", "3", ".", "0", "-", "t", "m", "p" >>,
          << "l", "a", "t", "e", "s", "t" >>, << "z", "e", "t", "a" >> }
      UpdateFilters ==
        [IncludePreReleases : BOOLEAN,
         MinUpdateType : {"none", "patch", "minor", "major", "unknown", ""},
         ExcludePatterns : {<< >>, << << "n", "i", "g", "h", "t", "l", "y" >>, << "s", "n", "a", "p", "s", "h", "o", "t" >>, << "t", "e", "m", "p" >>, << "t", "m", "p" >> >>}]
      KeyedImages ==
        { [Registry |-> << "d", "o", "c", "k", "e", "r", ".", "i", "o" >>, Repository |-> << "l", "i", "b", "r", "a", "r", "y", "/", "n", "g", "i", "n", "x" >>, Tag |-> << "1" >>],
          [Registry |-> << "d", "o", "c", "k", "e", "r", ".", "i", "o" >>, Repository |-> << "l", "i", "b", "r", "a", "r", "y", "/", "n", "g", "i", "n", "x" >>, Tag |-> << "1", ".", "2" >>],
          [Registry |-> << "g", "h", "c", "r", ".", "i", "o" >>, Repository |-> << "u", "/", "a", "p", "p" >>, Tag |-> << "1" >>],
          [Registry |-> << "g", "h", "c", "r", ".", "i", "o", "/", "u" >>, Repository |-> << "a", "p", "p" >>, Tag |-> << "1" >>] }
      SeqsUpTo(S, n) == UNION {[1..k -> S] : k \in 0..n}
  IN {[fn |-> "SelectClient", clients |-> cl, registry |-> r] :
        cl \in SeqsUpTo(ClientNames, MaxClients), r \in RegistryFields}
     \cup {[fn |-> "NormalizeVersion", version |-> v] : v \in TagPool}
     \cup {[fn |-> "CompareVersions", currentVersion |-> c, newVersion |-> n] :
             c \in TagPool, n \in TagPool}
     \cup {[fn |-> "SortVersions", versions |-> l] : l \in SeqsUpTo(ListPool, MaxTags)}
     \cup {[fn |-> "FindBestUpdateTag", currentVersion |-> c, tags |-> l] :
             c \in CurrentVersions, l \in SeqsUpTo(CandidatePool, MaxTags)}
     \cup {[fn |-> "ShouldIncludeUpdate", currentVersion |-> c, candidateVersion |-> n,
             filter |-> f] : c \in {<< "1", ".", "2", ".", "3" >>, << "l", "a", "t", "e", "s", "t" >>}, n \in UpdatePool, f \in UpdateFilters}
     \cup {[fn |-> "makeKey", image |-> a, operation |-> Operations[o], other |-> b,
             otherOperation |-> Operations[q]] :
             a \in KeyedImages, o \in 1..Len(Operations), b \in KeyedImages,
             q \in 1..Len(Operations)}

LibInit == libCall \in LibCalls /\ libResult = [returned |-> FALSE]

Returns(value) == libResult' = [returned |-> TRUE, value |-> value]

Calling(fn) == libCall.fn = fn /\ ~libResult.returned

\* checkImageForUpdates looks for the image's registry client
ApplySelectClient ==
  /\ Calling("SelectClient")
  /\ Returns(FirstClient(libCall.clients, libCall.registry))
  /\ UNCHANGED << libCall, scanVars, cacheVars >>

\* NormalizeVersion(version), and NormalizeVersion of what it returned
ApplyNormalizeVersion ==
  /\ Calling("NormalizeVersion")
  /\ Returns([once |-> NormalizeVersion(libCall.version),
              twice |-> NormalizeVersion(NormalizeVersion(libCall.version))])
  /\ UNCHANGED << libCall, scanVars, cacheVars >>

\* CompareVersions(currentVersion, newVersion)
ApplyCompareVersions ==
  /\ Calling("CompareVersions")
  /\ Returns(CompareVersions(libCall.currentVersion, libCall.newVersion))
  /\ UNCHANGED << libCall, scanVars, cacheVars >>

\* SortVersions(versions)
ApplySortVersions ==
  /\ Calling("SortVersions")
  /\ Returns(SortVersions(libCall.versions))
  /\ UNCHANGED << libCall, scanVars, cacheVars >>

\* FindBestUpdateTag(currentVersion, tags)
ApplyFindBestUpdateTag ==
  /\ Calling("FindBestUpdateTag")
  /\ \E tag \in FindBestUpdateTag(libCall.currentVersion, libCall.tags) : Returns(tag)
  /\ UNCHANGED << libCall, scanVars, cacheVars >>

\* ShouldIncludeUpdate(currentVersion, candidateVersion, filter)
ApplyShouldIncludeUpdate ==
  /\ Calling("ShouldIncludeUpdate")
  /\ Returns(ShouldIncludeUpdate(libCall.currentVersion, libCall.candidateVersion,
                                 libCall.filter))
  /\ UNCHANGED << libCall, scanVars, cacheVars >>

\* makeKey(image, operation) and makeKey(other, otherOperation): the keys under which
\* a Set for the first and a Get for the second work
ApplyMakeKey ==
  /\ Calling("makeKey")
  /\ Returns([key |-> makeKey(libCall.image, libCall.operation),
              otherKey |-> makeKey(libCall.other, libCall.otherOperation)])
  /\ UNCHANGED << libCall, scanVars, cacheVars >>

LibNext ==
  \/ ApplySelectClient
  \/ ApplyNormalizeVersion
  \/ ApplyCompareVersions
  \/ ApplySortVersions
  \/ ApplyFindBestUpdateTag
  \/ ApplyShouldIncludeUpdate
  \/ ApplyMakeKey

-----------------------------------------------------------------------------

\* The whole program: the scanner and the cache do not share state
\* (createScanService registers the registry clients unwrapped).

vars == << scanVars, cacheVars, libVars >>

\* no function of the library is being called
NoLibCall == libCall = [fn |-> "none"] /\ libResult = [returned |-> FALSE]

\* no scan is going on
NoScan ==
  /\ images = << >> /\ MaxConcurrency = 1 /\ cpc = "returned" /\ panicked = "none"
  /\ tpc = << >> /\ semaphore = 0 /\ wg = 0 /\ closer = "idle" /\ ctxDone = FALSE
  /\ updatesChan = NewChan /\ upToDateChan = NewChan /\ errorsChan = NewChan
  /\ updates = << >> /\ upToDate = << >> /\ errors = << >>
  /\ publishedAtCancel = {}

\* no cache is in use
NoCache ==
  /\ now = 0 /\ defaultTTL = 0 /\ cleanupInterval = 0
  /\ store = [k \in Keys |-> NoEntry]
  /\ stats = [Hits |-> 0, Misses |-> 0, Evicted |-> 0, Size |-> 0]
  /\ th = [c \in Callers |-> Idle]
  /\ sweeper = [pc |-> "idle", keysToDelete |-> {}]
  /\ delegateCalls = [i \in 1..Len(CacheImages) |-> 0]
  /\ calls = 0
  /\ pre = [c \in Callers |-> NoSnapshot]

\* a scan on its own: the program starts a scan and constructs no cache
ScanOnlyInit == ScanInit /\ NoCache /\ NoLibCall

SpecScan == ScanOnlyInit /\ [][ScanNext]_vars

\* The Go scheduler runs every goroutine that can take a step: checkForUpdates, each
\* task's goroutine, the closing goroutine and the collecting loop. Nothing obliges
\* the caller to cancel.
SpecScanFair ==
  /\ ScanOnlyInit /\ [][ScanNext]_vars
  /\ WF_vars(CheckForUpdatesStart)
  /\ \A t \in 1..NumTasks : WF_vars(t \in Tasks /\ TaskStep(t))
  /\ WF_vars(Closer)
  /\ WF_vars(CollectorStep)

\* a call of a library function on its own
LibOnlyInit == LibInit /\ NoScan /\ NoCache

SpecLib == LibOnlyInit /\ [][LibNext]_vars

\* a cache on its own: the program constructs a cache and starts no scan
CacheOnlyInit == CacheInit /\ NoScan /\ NoLibCall

SpecCacheSeq == CacheOnlyInit /\ [][CacheSeqNext]_vars

\* the cache used from several goroutines at once
SpecCache == CacheOnlyInit /\ [][CacheNext]_vars

-----------------------------------------------------------------------------
\* Properties of checkForUpdates

\* the number of entries of task t in a list of outcomes
CountOf(t, outcomes) == Cardinality({i \in 1..Len(outcomes) : outcomes[i].service = t})

\* the tasks that hold a semaphore slot: selecting a registry, inside GetLatestTags,
\* or past it and not yet at the deferred release
HoldsSlot(t) == tpc[t] \in {"dispatched", "fetching", "published", "panicked"}

SlotHolders == {t \in Tasks : HoldsSlot(t)}

\* checkForUpdates is past make(chan struct{}, config.MaxConcurrency)
SemaphoreMade == cpc # "start" /\ Len(images) # 0

\* C1: once checkForUpdates has made its semaphore, the tasks holding a slot are never
\* more than Config.MaxConcurrency, the semaphore counts exactly them, and every other
\* task that has not run yet is still queued.
C1_SemaphoreBound ==
  SemaphoreMade =>
    /\ Cardinality(SlotHolders) <= MaxConcurrency
    /\ semaphore = Cardinality(SlotHolders)
    /\ \A t \in Tasks \ SlotHolders : tpc[t] \in {"queued", "done"}

\* C1 witness: the semaphore is full and a task waits for a slot
C1_Witness ==
  /\ cpc = "collecting" /\ MaxConcurrency >= 1
  /\ Cardinality(SlotHolders) = MaxConcurrency
  /\ \E t \in Tasks : tpc[t] = "queued"

\* the outcomes of task t in what checkForUpdates returns
Returned(t) == CountOf(t, updates) + CountOf(t, upToDate) + CountOf(t, errors)

C3_PublishedBeforeCancelReturned ==
  (cpc = "returned" /\ ctxDone) => \A t \in publishedAtCancel : Returned(t) = 1

\* an input for which the task must fail: no client, an erroring or hung call, no tags
FailingInput(t) ==
  \/ ClientFor(t) = 0
  \/ Image(t).err
  \/ Image(t).delay = "hang"
  \/ Len(Image(t).tags) = 0

\* the outcomes task u can produce on its own
PossibleOutcomes(u) ==
  IF ClientFor(u) = 0
  THEN {[service |-> u, chan |-> "errors", msg |-> "no registry client", cause |-> "nil"]}
  ELSE {[service |-> u] @@ AnswerOutcome[images[u]]}
         \cup {[service |-> u, chan |-> "errors", msg |-> "getting tags", cause |-> e] :
                 e \in {"context canceled", "context deadline exceeded"}}

\* everything published so far on a channel and collected from it
AllUpdates == updates \o updatesChan.buf
AllUpToDate == upToDate \o upToDateChan.buf
AllErrors == errors \o errorsChan.buf

\* C4: a task with no client, a failing call or no tags never panics, publishes one
\* error entry and nothing else, and when the scan returns uncancelled its entry is
\* in errors once while every other task has exactly the outcome it yields alone.
C4_FailedTaskOnly ==
  \A t \in Tasks : FailingInput(t) =>
    /\ tpc[t] # "panicked"
    /\ CountOf(t, AllUpdates) = 0 /\ CountOf(t, AllUpToDate) = 0
    /\ CountOf(t, AllErrors) = (IF Terminal(t) THEN 1 ELSE 0)
    /\ (cpc = "returned" /\ ~ctxDone) =>
         /\ CountOf(t, errors) = 1
         /\ \A u \in Tasks \ {t} :
              /\ Returned(u) = 1
              /\ \E o \in PossibleOutcomes(u) :
                   \/ \E i \in 1..Len(updates) : updates[i] = o
                   \/ \E i \in 1..Len(upToDate) : upToDate[i] = o
                   \/ \E i \in 1..Len(errors) : errors[i] = o

\* C4 witness: an uncancelled scan returned one task's error and another task's update
C4_Witness ==
  /\ cpc = "returned" /\ ~ctxDone
  /\ \E t \in Tasks : FailingInput(t) /\ CountOf(t, errors) = 1
  /\ \E u \in Tasks : ~FailingInput(u) /\ CountOf(u, updates) = 1

\* C8 (as stated): with a non-positive MaxConcurrency the scan is refused before it
\* starts: checkForUpdates never spawns its goroutines and the process never panics.
C8_NonPositiveRejected ==
  MaxConcurrency <= 0 => (cpc # "collecting" /\ panicked = "none")

\* a task whose registry call does not return on its own is inside the call
HungCall(t) ==
  IF t \in Tasks THEN tpc[t] = "fetching" /\ Image(t).delay = "hang" ELSE FALSE

\* the task is past its deferred release of the slot
SlotReleased(t) == IF t \in Tasks THEN tpc[t] = "done" ELSE FALSE

\* C9 (as stated): a hung call is ended by its deadline, the slot is released and the
\* batch completes, unless the parent context is cancelled meanwhile.
C9_HungCallEndsAndBatchCompletes ==
  \A t \in 1..NumTasks :
    (HungCall(t) /\ ~ctxDone) ~>
      (ctxDone \/ (SlotReleased(t) /\ cpc = "returned"))

\* C10 (as stated): when checkForUpdates returns after a cancellation that found some
\* task not yet terminal, errors holds exactly one 'scan cancelled' entry.
C10_ExactlyOneCancelMarker ==
  (cpc = "returned" /\ ctxDone /\ publishedAtCancel # Tasks) =>
    Cardinality({i \in 1..Len(errors) : errors[i] = ScanCancelled}) = 1


-----------------------------------------------------------------------------
\* Properties of the cache, for calls and sweeps that do not overlap

\* goroutine c is at the return of a call of op
Returning(c, op) == th[c].pc = "return" /\ th[c].op = op

\* the entry that was stored under the call's key when the call started
PreEntry(c) == pre[c].store[KeyOf(c)]

\* that entry existed and its age, when the call looked at it, did not exceed its TTL
FoundFresh(c) ==
  PreEntry(c).ok /\ th[c].readAt - PreEntry(c).Timestamp <= PreEntry(c).TTL

\* SetTagsWithTTL(img, tags, ttl) leaves exactly (tags, the time of the call, ttl)
SetTagsStores(c) ==
  /\ store[KeyOf(c)] = CacheEntry(th[c].tags, "nil", th[c].entry.Timestamp, th[c].ttl)
  /\ th[c].entry.Timestamp \in pre[c].now..now
  /\ \A k \in Keys \ {KeyOf(c)} : store[k] = pre[c].store[k]

\* GetTags on an entry within its TTL: (tags, true), one more hit, nothing else
GetTagsHits(c) ==
  /\ th[c].ret.found /\ th[c].ret.tags = PreEntry(c).Tags
  /\ store = pre[c].store
  /\ stats = [pre[c].stats EXCEPT !.Hits = @ + 1]

\* GetTags on an entry past its TTL: (nil, false), the entry deleted, one more
\* eviction and one more miss, size one less
GetTagsEvicts(c) ==
  /\ ~th[c].ret.found /\ th[c].ret.tags = << >>
  /\ store = [pre[c].store EXCEPT ![KeyOf(c)] = NoEntry]
  /\ stats = [pre[c].stats EXCEPT !.Evicted = @ + 1, !.Misses = @ + 1, !.Size = @ - 1]

\* GetTags without an entry: (nil, false) and one more miss
GetTagsMisses(c) ==
  /\ ~th[c].ret.found /\ th[c].ret.tags = << >>
  /\ store = pre[c].store
  /\ stats = [pre[c].stats EXCEPT !.Misses = @ + 1]

\* C5: SetTagsWithTTL stores (tags, time of the call, ttl); GetTags on a stored entry
\* returns (its tags, true) while its age does not exceed its ttl, and once the age
\* exceeds the ttl returns (nil, false), deletes the entry and adds one eviction and
\* one miss, whether the background sweep is enabled or not.
C5_TTLAndLazyEviction ==
  \A c \in Callers :
    /\ Returning(c, "SetTagsWithTTL") => SetTagsStores(c)
    /\ Returning(c, "GetTags") =>
         IF FoundFresh(c) THEN GetTagsHits(c)
         ELSE IF PreEntry(c).ok THEN GetTagsEvicts(c)
         ELSE GetTagsMisses(c)

\* C5 witness: with the sweep disabled, a GetTags found an entry past its ttl, set
\* by SetTagsWithTTL, and evicted it
C5_Witness ==
  \E c \in Callers :
    /\ Returning(c, "GetTags") /\ cleanupInterval = 0
    /\ PreEntry(c).ok /\ PreEntry(c).Tags \in TagLists /\ ~FoundFresh(c)
    /\ stats.Evicted = 1 /\ stats.Misses = 1 /\ ~store[KeyOf(c)].ok

\* GetLatestTags returns the wrapped client's error
ReturnsError(c) == Returning(c, "GetLatestTags") /\ th[c].ret.err # "nil"

\* C6 (as stated): when the delegate returns an error the error is returned and the
\* cache contents and size are unchanged.
C6_FailureLeavesCacheUnchanged ==
  \A c \in Callers :
    ReturnsError(c) => (store = pre[c].store /\ stats.Size = pre[c].stats.Size)

\* C6 (amended): when the delegate returns an error the error is returned with no
\* tags, nothing is stored under the image's key, the other keys are unchanged, and
\* the size is unchanged unless the lookup found an expired entry for the image,
\* which it evicted (size one less); a call that finds no entry for its image
\* invokes the delegate, so the next call does.
C6_FailureNotCached ==
  \A c \in Callers :
    /\ ReturnsError(c) =>
         /\ th[c].delegated /\ th[c].ret.tags = << >> /\ ~FoundFresh(c)
         /\ store = [pre[c].store EXCEPT ![KeyOf(c)] = NoEntry]
         /\ stats.Size = pre[c].stats.Size - (IF PreEntry(c).ok THEN 1 ELSE 0)
         /\ stats.Evicted = pre[c].stats.Evicted + (IF PreEntry(c).ok THEN 1 ELSE 0)
    /\ (Returning(c, "GetLatestTags") /\ ~PreEntry(c).ok) =>
         (th[c].delegated /\ delegateCalls[th[c].image] = pre[c].delegateCalls[th[c].image] + 1)

\* C6 witness: a failed call whose lookup had evicted an expired entry of the image
C6_Witness ==
  \E c \in Callers : ReturnsError(c) /\ PreEntry(c).ok /\ stats.Size = pre[c].stats.Size - 1

\* GetLatestTags returns tags and no error
ReturnsTags(c) == Returning(c, "GetLatestTags") /\ th[c].ret.err = "nil"

\* the call was served from the cache
ServedFromCache(c) ==
  /\ ~th[c].delegated /\ delegateCalls = pre[c].delegateCalls
  /\ th[c].ret.tags = PreEntry(c).Tags
  /\ store = pre[c].store

\* the call invoked the delegate once and cached its tags with the default TTL
FilledCache(c) ==
  /\ th[c].delegated
  /\ delegateCalls = [pre[c].delegateCalls EXCEPT ![th[c].image] = @ + 1]
  /\ th[c].ret.tags = DelegateTags[th[c].image]
  /\ store[KeyOf(c)] =
       CacheEntry(DelegateTags[th[c].image], "nil", th[c].entry.Timestamp, defaultTTL)
  /\ th[c].entry.Timestamp \in pre[c].now..now

\* C7: a successful GetLatestTags that finds an entry of its image within the TTL
\* window does not invoke the delegate and returns the entry's tags; any other
\* successful call invokes the delegate exactly once and caches its tags, so the
\* calls that follow within the window are served from the cache.
C7_DelegateOncePerWindow ==
  \A c \in Callers :
    ReturnsTags(c) => IF FoundFresh(c) THEN ServedFromCache(c) ELSE FilledCache(c)

\* C7 witness: the second of two GetLatestTags calls for an image is served the
\* delegate's tags from the cache, the delegate having been invoked once
C7_Witness ==
  \E c \in Callers :
    /\ ReturnsTags(c) /\ FoundFresh(c) /\ calls = 2
    /\ delegateCalls[th[c].image] = 1
    /\ th[c].ret.tags = DelegateTags[th[c].image]
    /\ stats.Hits = 1 /\ stats.Misses = 1

-----------------------------------------------------------------------------
\* Properties of the library functions

HasReturned(fn) == libCall.fn = fn /\ libResult.returned

\* the claim's matching: equal names up to case, and docker.io / dockerhub also
\* match an empty registry field
MatchesByEquality(identity, registry) ==
  \/ ToLower(identity) = ToLower(registry)
  \/ ToLower(identity) \in { << "d", "o", "c", "k", "e", "r", ".", "i", "o" >>, << "d", "o", "c", "k", "e", "r", "h", "u", "b" >> } /\ registry = << >>

\* the matching with the aliases: docker.io and dockerhub stand for docker.io (or no
\* registry), ghcr.io and ghcr for ghcr.io, any other name for itself
MatchesWithAliases(identity, registry) ==
  IF ToLower(identity) \in { << "d", "o", "c", "k", "e", "r", ".", "i", "o" >>, << "d", "o", "c", "k", "e", "r", "h", "u", "b" >> }
  THEN ToLower(registry) \in { << "d", "o", "c", "k", "e", "r", ".", "i", "o" >>, << >> }
  ELSE IF ToLower(identity) \in { << "g", "h", "c", "r", ".", "i", "o" >>, << "g", "h", "c", "r" >> }
  THEN ToLower(registry) = << "g", "h", "c", "r", ".", "i", "o" >>
  ELSE ToLower(identity) = ToLower(registry)

\* k is the first client of the call, in the supplied order, that matches (0: none does)
IsFirstMatch(k, Matches(_, _)) ==
  IF k = 0
  THEN \A j \in 1..Len(libCall.clients) : ~Matches(libCall.clients[j], libCall.registry)
  ELSE /\ k \in 1..Len(libCall.clients)
       /\ Matches(libCall.clients[k], libCall.registry)
       /\ \A j \in 1..(k - 1) : ~Matches(libCall.clients[j], libCall.registry)

\* C11 as stated: the client used is the first whose identity equals the registry
\* field up to case, docker.io and dockerhub matching an empty field as well.
C11_FirstClientByEquality ==
  HasReturned("SelectClient") => IsFirstMatch(libResult.value, MatchesByEquality)

\* C11 amended: the client used is the first, in the supplied order, whose identity
\* matches the registry field, where docker.io and dockerhub match docker.io and
\* the empty field, ghcr.io and ghcr match ghcr.io, and any other identity matches
\* the field equal to it, all up to case.
C11_FirstClientWithAliases ==
  HasReturned("SelectClient") => IsFirstMatch(libResult.value, MatchesWithAliases)

\* C11 witness: the second client is chosen because the first does not match, for a
\* registry field written in another case
C11_Witness ==
  /\ HasReturned("SelectClient") /\ libResult.value = 2
  /\ libCall.registry = << "D", "O", "C", "K", "E", "R", ".", "I", "O" >> /\ libCall.clients[2] = << "d", "o", "c", "k", "e", "r", "h", "u", "b" >>


\* the tags checkImageForUpdates sorts for task t: the stable ones, or all of them
TagsToSort(t) == StableOrAll(Image(t).tags, FilterPreReleases(Image(t).tags))

\* task t got its registry's answer, a non-empty tag list, and is past the comparison
ClassifiedTags(t) ==
  /\ ClientFor(t) # 0 /\ ~Image(t).err /\ Image(t).delay = "none"
  /\ Len(Image(t).tags) > 0
  /\ tpc[t] \in {"published", "done", "panicked"}

\* C12 (as stated): a task with a non-empty tag list takes the head of SortVersions of
\* the stable tags (of all tags when none is stable) as latest, and publishes UpToDate
\* exactly when CompareVersions(current, latest) is none, otherwise one Update with the
\* current tag, the latest tag and that classification.
C12_HeadOfSortedClassifies ==
  \A t \in Tasks : ClassifiedTags(t) =>
    LET sortedTags == SortVersions(TagsToSort(t))
    IN /\ Len(sortedTags) > 0
       /\ tpc[t] # "panicked"
       /\ LET latestTag == sortedTags[1]
              updateType == CompareVersions(Image(t).Tag, latestTag)
          IN IF updateType = "none"
             THEN CountOf(t, AllUpToDate) = 1 /\ CountOf(t, AllUpdates) = 0
             ELSE /\ CountOf(t, AllUpToDate) = 0 /\ CountOf(t, AllUpdates) = 1
                  /\ \E i \in 1..Len(AllUpdates) :
                       AllUpdates[i] = [service |-> t, chan |-> "updates", current |-> Image(t).Tag,
                                        latest |-> latestTag, type |-> updateType]


\* what GetTags for CacheImages[i] returns when called now: the tags of the entry
\* under the image's key if it is within its TTL
GetTagsNow(i) ==
  LET e == store[makeKey(CacheImages[i], Operations[1])]
  IN IF e.ok /\ ~IsExpired(e, now) THEN [found |-> TRUE, tags |-> e.Tags]
     ELSE [found |-> FALSE, tags |-> << >>]

\* C13 (as stated): a GetTags hit returns a copy, so a caller's write into the tag
\* list it was handed does not change what a GetTags call for any image returns
\* from then on.
C13_ModifyingKeepsCachedTags ==
  [][\A c \in Callers : ModifyReturned(c) =>
       \A i \in 1..Len(CacheImages) : GetTagsNow(i)' = GetTagsNow(i)]_vars

\* the cache holds no entry
EmptyStore == [k \in Keys |-> NoEntry]

\* goroutine c is inside a Set: SetTagsWithTTL, SetImageInfo, or the SetTags of the
\* cached client's GetLatestTags
Setting(c) == th[c].pc \in {"loadOrStore", "sizeInc", "store"}

\* C14: when Clear returns no entry is left, Size is 0 and Hits, Misses and Evicted are
\* what they were when it was called; the cache then stays empty until a Set stores
\* an entry, and a GetTags, GetImageInfo or GetLatestTags lookup that starts on the
\* empty cache is a miss (GetLatestTags goes on to the wrapped client).
C14_ClearEmptiesAndKeepsCounters ==
  /\ [](\A c \in Callers :
         /\ Returning(c, "Clear") =>
              (store = EmptyStore /\ stats = [pre[c].stats EXCEPT !.Size = 0])
         /\ (th[c].pc = "return" /\ th[c].op \in {"GetTags", "GetImageInfo", "GetLatestTags"}
               /\ pre[c].store = EmptyStore) =>
              /\ stats.Misses = pre[c].stats.Misses + 1 /\ stats.Hits = pre[c].stats.Hits
              /\ IF th[c].op = "GetLatestTags" THEN th[c].delegated ELSE th[c].ret = NoReturn)
  /\ [][(store = EmptyStore /\ store' # EmptyStore) => \E c \in Callers : Setting(c)]_vars

\* C14 witness: Clear returns after it emptied a cache that held an entry of size 1
C14_Witness ==
  \E c \in Callers :
    /\ Returning(c, "Clear")
    /\ pre[c].store # EmptyStore /\ pre[c].stats.Size = 1
    /\ store = EmptyStore /\ stats.Size = 0

\* C15 (as stated): NormalizeVersion is idempotent: normalizing what it returned
\* returns the same string, for every tag.
C15_NormalizeIdempotent ==
  HasReturned("NormalizeVersion") => libResult.value.twice = libResult.value.once

\* C16: CompareVersions(x, x) is none for every tag x, parseable or not.
C16_CompareSelfIsNone ==
  (HasReturned("CompareVersions") /\ libCall.currentVersion = libCall.newVersion) =>
    libResult.value = "none"

\* C16 witness: a tag with a pre-release part that parses was compared with itself
C16_Witness ==
  /\ HasReturned("CompareVersions")
  /\ libCall.currentVersion = << "1", ".", "2", ".", "3", "-", "r", "c", "1" >> /\ libCall.newVersion = << "1", ".", "2", ".", "3", "-", "r", "c", "1" >>
  /\ parseFlexibleSemver(libCall.currentVersion).ok
  /\ libResult.value = "none"

\* both arguments of the CompareVersions call parse as flexible semantic versions
BothParse ==
  parseFlexibleSemver(libCall.currentVersion).ok /\ parseFlexibleSemver(libCall.newVersion).ok

\* what the claim gives for two parsed versions: the first higher component of the
\* candidate, and none when the three components are equal or the candidate is not
\* greater
ByComponents(currentSemver, newSemver) ==
  IF newSemver.major # currentSemver.major
  THEN (IF newSemver.major > currentSemver.major THEN "major" ELSE "none")
  ELSE IF newSemver.minor # currentSemver.minor
  THEN (IF newSemver.minor > currentSemver.minor THEN "minor" ELSE "none")
  ELSE IF newSemver.patch # currentSemver.patch
  THEN (IF newSemver.patch > currentSemver.patch THEN "patch" ELSE "none")
  ELSE "none"

\* C17 (as stated): when both tags parse, CompareVersions is major, minor or patch by
\* the first component in which the candidate is higher, and none whenever the three
\* components are equal or the candidate is not greater.
C17_ClassifiedByComponents ==
  (HasReturned("CompareVersions") /\ BothParse) =>
    libResult.value = ByComponents(parseFlexibleSemver(libCall.currentVersion),
                                   parseFlexibleSemver(libCall.newVersion))

\* the three components are equal and the candidate is a release of a version that
\* current is a pre-release of, or a later pre-release of it
HigherByPreRelease(currentSemver, newSemver) ==
  /\ newSemver.major = currentSemver.major /\ newSemver.minor = currentSemver.minor
  /\ newSemver.patch = currentSemver.patch
  /\ SemverCompare(newSemver, currentSemver) > 0

\* C17 (amended): as stated, except that with the three components equal the result is
\* patch when the candidate is greater by its pre-release part alone, and none
\* otherwise.
C17_ClassifiedByComponentsOrPreRelease ==
  (HasReturned("CompareVersions") /\ BothParse) =>
    LET currentSemver == parseFlexibleSemver(libCall.currentVersion)
        newSemver == parseFlexibleSemver(libCall.newVersion)
    IN libResult.value = IF HigherByPreRelease(currentSemver, newSemver) THEN "patch"
                         ELSE ByComponents(currentSemver, newSemver)

\* C17 witness: a candidate with a higher minor and a lower patch was classified minor
C17_Witness ==
  /\ HasReturned("CompareVersions") /\ BothParse
  /\ libCall.currentVersion = << "1", ".", "2", ".", "4" >> /\ libCall.newVersion = << "1", ".", "3", ".", "0" >>
  /\ libResult.value = "minor"

\* C18: what CompareVersions returns is always one of the five classifications; when
\* one of the tags does not parse as a flexible semantic version it is unknown if the
\* candidate string is lexicographically greater than the current string and none
\* otherwise, never major, minor or patch.
C18_UnparseableComparedAsStrings ==
  HasReturned("CompareVersions") =>
    /\ libResult.value \in {"none", "unknown", "major", "minor", "patch"}
    /\ ~BothParse =>
         libResult.value = (IF StrLess(libCall.currentVersion, libCall.newVersion)
                            THEN "unknown" ELSE "none")

\* C18 witness: a version that parses was compared with a greater string that does not
C18_Witness ==
  /\ HasReturned("CompareVersions")
  /\ libCall.currentVersion = << "1", ".", "2", ".", "3" >> /\ libCall.newVersion = << "l", "a", "t", "e", "s", "t" >>
  /\ parseFlexibleSemver(libCall.currentVersion).ok /\ ~parseFlexibleSemver(libCall.newVersion).ok
  /\ libResult.value = "unknown"

\* s is sorted descending by less(a, b): no element is followed by one greater than it
SortedDescending(s, less(_, _)) ==
  \A i \in 1..Len(s) : \A j \in (i + 1)..Len(s) : ~less(s[i], s[j])

\* version a is below version b by (major, minor, patch)
LowerComponents(a, b) ==
  LET va == parseFlexibleSemver(a)
      vb == parseFlexibleSemver(b)
  IN \/ va.major < vb.major
     \/ va.major = vb.major /\ va.minor < vb.minor
     \/ va.major = vb.major /\ va.minor = vb.minor /\ va.patch < vb.patch

\* the number of times x occurs in s
Occurrences(x, s) == Cardinality({i \in 1..Len(s) : s[i] = x})

\* C19 (as stated): what SortVersions returns is the tags that parse as flexible
\* semantic versions, descending by (major, minor, patch), followed by the other tags,
\* descending lexicographically.
C19_SemanticFirstThenStrings ==
  HasReturned("SortVersions") =>
    LET semantic == SelectSeq(libCall.versions, ParsesFlexibly)
        sorted == libResult.value
        n == Len(semantic)
    IN /\ Len(sorted) = Len(libCall.versions)
       /\ \A i \in 1..Len(sorted) :
            /\ Occurrences(sorted[i], sorted) = Occurrences(sorted[i], libCall.versions)
            /\ ParsesFlexibly(sorted[i]) <=> i <= n
       /\ SortedDescending(SubSeq(sorted, 1, n), LowerComponents)
       /\ SortedDescending(SubSeq(sorted, n + 1, Len(sorted)), StrLess)

\* the positions of the tags whose version is strictly above the current one
HigherTags(currentVersion, tags) ==
  {i \in 1..Len(tags) :
     /\ parseFlexibleSemver(tags[i]).ok
     /\ SemverCompare(parseFlexibleSemver(tags[i]), parseFlexibleSemver(currentVersion)) > 0}

\* tag r is the one the claim picks among the positions of a group: one with the
\* current suffix if the group has one, else one without suffix if it has one, else
\* the first
PickedFrom(r, group, currentVersion, tags) ==
  LET suffix == ExtractVersionSuffix(currentVersion)
      sharing == {j \in group : ExtractVersionSuffix(tags[j]) = suffix}
      plain == {j \in group : ExtractVersionSuffix(tags[j]) = << >>}
  IN IF sharing # {} THEN \E j \in sharing : tags[j] = r
     ELSE IF plain # {} THEN \E j \in plain : tags[j] = r
     ELSE \E j \in group : tags[j] = r /\ \A k \in group : j <= k

\* C20: for a current tag that parses, FindBestUpdateTag returns the empty string when
\* no tag has a version strictly above the current one; otherwise it returns a tag of
\* the group with the highest such version: one sharing the current suffix if the
\* group has one, else one without suffix, else the group's first tag in input order.
C20_BestTagOfHighestGroup ==
  (HasReturned("FindBestUpdateTag") /\ parseFlexibleSemver(libCall.currentVersion).ok) =>
    LET tags == libCall.tags
        higher == HigherTags(libCall.currentVersion, tags)
    IN IF higher = {} THEN libResult.value = << >>
       ELSE \E i \in higher :
              /\ \A j \in higher :
                   SemverCompare(parseFlexibleSemver(tags[j]), parseFlexibleSemver(tags[i])) <= 0
              /\ PickedFrom(libResult.value,
                            {j \in higher : parseFlexibleSemver(tags[j]) = parseFlexibleSemver(tags[i])},
                            libCall.currentVersion, tags)

\* C20 witness: the current tag has the suffix -alpine, the highest group holds the
\* plain tag first and the -alpine tag after it, and the -alpine tag was returned
C20_Witness ==
  /\ HasReturned("FindBestUpdateTag")
  /\ libCall.currentVersion = << "1", ".", "2", ".", "0", "-", "a", "l", "p", "i", "n", "e" >>
  /\ libCall.tags = << << "1", ".", "3", ".", "0" >>, << "1", ".", "2", ".", "3" >>, << "1", ".", "3", ".", "0", "-", "a", "l", "p", "i", "n", "e" >> >>
  /\ libResult.value = << "1", ".", "3", ".", "0", "-", "a", "l", "p", "i", "n", "e" >>

\* the severity of a classification: none < {unknown, patch} < minor < major
Severity(updateType) ==
  CASE updateType = "none" -> 0
    [] updateType \in {"unknown", "patch"} -> 1
    [] updateType = "minor" -> 2
    [] updateType = "major" -> 3

\* C21: for a filter whose MinUpdateType is one of the five classifications,
\* ShouldIncludeUpdate accepts a candidate only if CompareVersions(current, candidate)
\* is not none and its severity is at least the severity of MinUpdateType; a candidate
\* classified unknown that is no excluded pre-release and matches no exclude pattern is
\* accepted with MinUpdateType patch and rejected with minor or major.
C21_AcceptedMeetsThreshold ==
  (HasReturned("ShouldIncludeUpdate")
     /\ libCall.filter.MinUpdateType \in {"none", "unknown", "patch", "minor", "major"}) =>
    LET updateType == CompareVersions(libCall.currentVersion, libCall.candidateVersion)
        filter == libCall.filter
        skipped ==
          \/ ~filter.IncludePreReleases /\ IsPreRelease(libCall.candidateVersion)
          \/ \E k \in 1..Len(filter.ExcludePatterns) :
               Contains(ToLower(libCall.candidateVersion), filter.ExcludePatterns[k])
    IN /\ libResult.value =>
            (updateType # "none" /\ Severity(updateType) >= Severity(filter.MinUpdateType))
       /\ (updateType = "unknown" /\ ~skipped) =>
            (libResult.value <=> filter.MinUpdateType \in {"none", "unknown", "patch"})

\* C21 witness: a candidate classified unknown was rejected by the threshold minor
C21_Witness ==
  /\ HasReturned("ShouldIncludeUpdate")
  /\ libCall.currentVersion = << "1", ".", "2", ".", "3" >> /\ libCall.candidateVersion = << "l", "a", "t", "e", "s", "t" >>
  /\ CompareVersions(libCall.currentVersion, libCall.candidateVersion) = "unknown"
  /\ libCall.filter.MinUpdateType = "minor" /\ libCall.filter.ExcludePatterns = << >>
  /\ libResult.value = FALSE

\* the number of entries in the sync.Map
Stored == Cardinality({k \in Keys : store[k].ok})

\* C22 (as stated): whenever no call and no sweep is in progress, Size equals the
\* number of entries stored and is not negative.
C22_SizeCountsEntries ==
  Quiet => (stats.Size = Stored /\ stats.Size >= 0)

\* the keys whose entry a step removes
Removed == {k \in Keys : store[k].ok /\ ~store'[k].ok}

\* C23 (as stated): a sweep collects every entry that is expired when it runs; each of
\* its deletions removes an entry that is expired and leaves the other entries in
\* place, and the eviction counter goes up and the size down by the number of entries
\* removed, one for each.
C23_SweepRemovesExpiredOnly ==
  /\ [][SweepCollect =>
          sweeper'.keysToDelete = {k \in Keys : store[k].ok /\ IsExpired(store[k], now)}]_vars
  /\ [][SweepDelete =>
          /\ \A k \in Removed : IsExpired(store[k], now)
          /\ \A k \in Keys \ Removed : store'[k] = store[k]
          /\ stats'.Evicted = stats.Evicted + Cardinality(Removed)
          /\ stats'.Size = stats.Size - Cardinality(Removed)]_vars

\* C24 (as stated): two different tuples (registry, repository, tag, operation) never
\* get the same key, so that a Set for one tuple cannot change what a Get for the
\* other finds.
C24_DifferentTuplesDifferentKeys ==
  (HasReturned("makeKey")
     /\ << libCall.image, libCall.operation >> # << libCall.other, libCall.otherOperation >>)
    => libResult.value.key # libResult.value.otherKey

\* C24: the tags entry and the image-info entry of the same image have different keys
C24_TagsAndInfoApart ==
  (HasReturned("makeKey") /\ libCall.image = libCall.other
     /\ libCall.operation # libCall.otherOperation)
    => libResult.value.key # libResult.value.otherKey

\* C25 (as stated): the deletion on read and the deletions of the sweep remove expired
\* entries only; an entry that a Set has just stored and that has not expired stays.
C25_OnlyExpiredEntriesDeleted ==
  [][((\E c \in Callers : Delete(c)) \/ SweepDelete) =>
       \A k \in Removed : IsExpired(store[k], now)]_vars

\* C26 (as stated): with MaxConcurrency at least 1 and a parent context that is not
\* cancelled, every task reaches a terminal state and checkForUpdates returns.
C26_EveryTaskEndsAndScanReturns ==
  (cpc = "start" /\ MaxConcurrency >= 1) ~>
    (ctxDone \/ (cpc = "returned" /\ \A t \in Tasks : Terminal(t)))

\* C27: a task that is about to publish finds room in each result channel, and the
\* channel still open
C27_PublishNeverBlocks ==
  \A t \in Tasks :
    tpc[t] \in {"dispatched", "fetching"} =>
      CanSend(updatesChan) /\ CanSend(upToDateChan) /\ CanSend(errorsChan)

\* C27 (as stated): after checkForUpdates has returned on cancellation, every task's
\* goroutine ends and every slot of the semaphore is released.
C27_WorkersEndAfterCancelledReturn ==
  (cpc = "returned" /\ ctxDone) ~> (semaphore = 0 /\ \A t \in Tasks : tpc[t] = "done")

\* C28 (as stated): SortVersions returns a permutation of its input: every tag occurs
\* in the result as often as in the input, and a non-empty input gives a non-empty
\* result.
C28_SortVersionsPermutes ==
  HasReturned("SortVersions") =>
    /\ \A i \in 1..Len(libCall.versions) :
         Occurrences(libCall.versions[i], libResult.value)
           = Occurrences(libCall.versions[i], libCall.versions)
    /\ Len(libResult.value) = Len(libCall.versions)
    /\ libCall.versions # << >> => libResult.value # << >>

\* every caller is at the return of a successful GetLatestTags for the same image,
\* which was not cached when it called and which it fetched from the wrapped client
AllFetched(i) ==
  \A c \in Callers :
    /\ Returning(c, "GetLatestTags") /\ th[c].image = i
    /\ pre[c].store = EmptyStore /\ th[c].delegated /\ th[c].ret.err = "nil"

\* C29 (as stated): after concurrent GetLatestTags calls for the same uncached image,
\* as long as an entry one of them stored has not expired, the cache holds exactly one
\* entry, the one for that image, and Size is 1.
C29_OneEntryCountedOnce ==
  \A i \in 1..Len(CacheImages) :
    (AllFetched(i) /\ sweeper.pc = "idle"
       /\ \E c \in Callers : ~IsExpired(th[c].entry, now)) =>
      /\ store[makeKey(CacheImages[i], Operations[1])].ok
      /\ Stored = 1
      /\ stats.Size = 1

\* C30: when FindBestUpdateTag returns a non-empty tag for a current tag that parses as
\* a flexible semantic version, the tag is one of the candidates and CompareVersions
\* classifies the step from the current tag to it as major, minor or patch.
C30_ReturnedTagIsAnUpdate ==
  (HasReturned("FindBestUpdateTag") /\ parseFlexibleSemver(libCall.currentVersion).ok
     /\ libResult.value # << >>) =>
    /\ \E i \in 1..Len(libCall.tags) : libCall.tags[i] = libResult.value
    /\ CompareVersions(libCall.currentVersion, libResult.value) \in {"major", "minor", "patch"}

\* C30 witness: the release 1.2.3 was returned for the current pre-release 1.2.3-rc1,
\* from candidates that also hold the current tag and a tag that does not parse
C30_Witness ==
  /\ HasReturned("FindBestUpdateTag")
  /\ libCall.currentVersion = << "1", ".", "2", ".", "3", "-", "r", "c", "1" >>
  /\ libCall.tags = << << "l", "a", "t", "e", "s", "t" >>, << "1", ".", "2", ".", "3", "-", "r", "c", "1" >>, << "1", ".", "2", ".", "3" >> >>
  /\ libResult.value = << "1", ".", "2", ".", "3" >>
  /\ CompareVersions(libCall.currentVersion, libResult.value) = "patch"

====
